---- MODULE Spec2Model ----
(***************************************************************************)
(* SimpleTrader: the backtest simulation engines                           *)
(* (backtest/02_multibacktest.py, backtest/06_cc_output_enabled.py,        *)
(* archive/backtest.py), the parameter grid sampler and the live trader's  *)
(* balance arithmetic (main.py).                                           *)
(*                                                                         *)
(* Python floats are modelled as exact rationals <<n, d>> (d > 0, lowest   *)
(* terms); values rounded for a log entry (round(x, 8)) are modelled as    *)
(* decimals <<integer part, 8 fractional digits>>.                         *)
(***************************************************************************)
EXTENDS Integers, Sequences, FiniteSets, TLC

\* ------------------------------------------------------------------------
\* Exact rational arithmetic
\* ------------------------------------------------------------------------
RECURSIVE GCD(_, _)
GCD(a, b) == IF b = 0 THEN a ELSE GCD(b, a % b)

Abs(x) == IF x < 0 THEN -x ELSE x

Rat(n, d) ==
    LET g == GCD(Abs(n), d) IN <<n \div g, d \div g>>

RInt(n) == <<n, 1>>

RNeg(a) == <<-a[1], a[2]>>

\* abs(a)
RAbs(a) == <<Abs(a[1]), a[2]>>

RAdd(a, b) ==
    LET g == GCD(a[2], b[2])
    IN  Rat(a[1] * (b[2] \div g) + b[1] * (a[2] \div g), (a[2] \div g) * b[2])

RSub(a, b) == RAdd(a, RNeg(b))

RMul(a, b) ==
    LET g1 == GCD(Abs(a[1]), b[2])
        g2 == GCD(Abs(b[1]), a[2])
    IN  <<(a[1] \div g1) * (b[1] \div g2), (a[2] \div g2) * (b[2] \div g1)>>

\* division by a positive rational
RDiv(a, b) == RMul(a, <<b[2], b[1]>>)

RLt(a, b) ==
    LET g == GCD(a[2], b[2])
    IN  a[1] * (b[2] \div g) < b[1] * (a[2] \div g)

RLe(a, b) == ~RLt(b, a)
RGt(a, b) == RLt(b, a)
RGe(a, b) == ~RLt(a, b)

RMin(a, b) == IF RLt(b, a) THEN b ELSE a

RECURSIVE RPow(_, _)
RPow(a, k) == IF k = 0 THEN RInt(1) ELSE RMul(a, RPow(a, k - 1))

Zero == RInt(0)

\* ------------------------------------------------------------------------
\* Decimal rounding at the reporting boundary
\* ------------------------------------------------------------------------
RECURSIVE Pow10(_)
Pow10(k) == IF k = 0 THEN 1 ELSE 10 * Pow10(k - 1)

RECURSIVE FracDigits(_, _, _, _)
FracDigits(r, d, k, acc) ==
    IF k = 0 THEN <<acc, r>>
    ELSE FracDigits((r * 10) % d, d, k - 1, acc * 10 + ((r * 10) \div d))

\* x >= 0 rounded to k decimals: <<integer part, k fractional digits>>
RoundTo(x, k) ==
    LET ip == x[1] \div x[2]
        fr == FracDigits(x[1] % x[2], x[2], k, 0)
        up == \/ 2 * fr[2] > x[2]
              \/ 2 * fr[2] = x[2] /\ fr[1] % 2 = 1
        fp == IF up THEN fr[1] + 1 ELSE fr[1]
    IN  IF fp = Pow10(k) THEN <<ip + 1, 0>> ELSE <<ip, fp>>

\* round(x, 8)
round8(x) == RoundTo(x, 8)

\* f"{x:.6f}"
fmt6(x) == RoundTo(x, 6)

\* ------------------------------------------------------------------------
\* Inputs: bounds and value sets
\* ------------------------------------------------------------------------
MaxRows == 4
\* rows and files of a continuous multi-file run
MaxContRows == 3
MaxFiles == 2

None == <<>>
Unparseable == <<0, 0>>

P50  == RInt(50)
P100 == RInt(100)
P10094 == Rat(5047, 50)
P103 == RInt(103)
P107 == RInt(107)
P125 == RInt(125)
P200 == RInt(200)

\* closing prices offered to the parameterised engines
Prices == {P50, P100, P103, P200}
\* closing prices offered to simulate_trading_across_all_files
CCPrices == {P50, P100, P125, P200}
\* closing prices offered to archive/backtest.py (fixed parameters)
ArchivePrices == {P100, P10094, P103, P107}

\* a candle row: closing price cell and opening timestamp cell
\* the timestamp cell is "ok" (an integer dated inside 2000..2100),
\* "unparseable" (no integer) or "out_of_range" (an integer dated outside
\* 2000..2100 that datetime can still represent)
Rows(prices, p1, p2) ==
    [close_price : prices, timestamp_open : {"ok"}]
        \cup {[close_price |-> Unparseable, timestamp_open |-> "ok"],
              [close_price |-> p1, timestamp_open |-> "unparseable"],
              [close_price |-> p2, timestamp_open |-> "out_of_range"]}

Last(seq) == seq[Len(seq)]

INITIAL_USDC_BALANCE == RInt(1000)

Params(b, t, mx, mn, m) ==
    [base_trade_percentage |-> b, trigger_percentage |-> t,
     max_trade_usd |-> mx, min_trade_usd |-> mn, multiplier |-> m]

\* archive/backtest.py's module constants
ArchiveParams ==
    Params(Rat(1, 5), Rat(3, 100), RInt(50), RInt(10), Rat(11, 10))

ParamCombos ==
    { ArchiveParams,
      Params(Rat(1, 5), Rat(3, 100), RInt(750), RInt(15), Rat(11, 10)),
      Params(Rat(1, 5), Rat(1, 2),   RInt(50),  RInt(10), Rat(11, 10)),
      Params(Rat(1, 5), Rat(1, 2),   RInt(750), RInt(0),  RInt(1)),
      Params(Rat(1, 5), Rat(3, 100), RInt(0),   RInt(0),  Rat(11, 10)),
      Params(Rat(1, 5), Rat(1, 2),   RInt(750), RInt(300), RInt(2)),
      Params(RInt(1),   Rat(1, 2),   RInt(5000), RInt(10), RInt(2)),
      Params(RInt(1),   Rat(3, 100), RInt(5000), RInt(0),  RInt(2)),
      Params(RInt(1),   Rat(3, 100), RInt(5),   RInt(10), RInt(1)),
      Params(RInt(1),   Rat(1, 2),   RInt(50),  RInt(10), RInt(2)),
      Params(Rat(3, 4), Rat(1, 2),   RInt(5000), RInt(15), Rat(3, 2)) }

VARIABLES engine, params, df, sim, cont, live, sampler, agg, sweep, evals, stamp, price_cache, usd

vars == <<engine, params, df, sim, cont, live, sampler, agg, sweep, evals, stamp, price_cache, usd>>

\* ------------------------------------------------------------------------
\* backtest/02_multibacktest.py: simulate_trading
\* ------------------------------------------------------------------------
SimInit ==
    [eth_balance |-> Zero, usdc_balance |-> INITIAL_USDC_BALANCE,
     base_price |-> None, consecutive_count |-> 0, last_action |-> "None",
     trade_id |-> 1, trade_logs |-> <<>>, error |-> "None"]

TimestampOk(ts_raw) == ts_raw = "ok"

\* NextCount that never resets on a change of direction
NextCountNoReset(last_action, action, consecutive_count) ==
    IF last_action = action THEN consecutive_count + 1 ELSE consecutive_count

NextCount(last_action, action, consecutive_count) ==
    IF last_action = action THEN consecutive_count + 1 ELSE 0

\* EffectivePct dividing by the multiplier power instead of multiplying
EffectivePctShrinking(p, consecutive_count) ==
    RDiv(p.base_trade_percentage, RPow(p.multiplier, consecutive_count))

EffectivePct(p, consecutive_count) ==
    RMul(p.base_trade_percentage, RPow(p.multiplier, consecutive_count))

\* SellAmounts without the clamp to the base balance held
SellAmountsNoClamp(eth_balance, price, potential_usd, max_trade_usd) ==
    LET trade_usd == RMin(potential_usd, max_trade_usd)
    IN  [quantity |-> RDiv(trade_usd, price), trade_usd |-> trade_usd]

\* SellAmounts clamping the quantity but not recomputing trade_usd
SellAmountsStaleUsd(eth_balance, price, potential_usd, max_trade_usd) ==
    LET trade_usd == RMin(potential_usd, max_trade_usd)
        quantity  == RDiv(trade_usd, price)
    IN  [quantity |-> IF RGt(quantity, eth_balance) THEN eth_balance ELSE quantity,
         trade_usd |-> trade_usd]

\* SellAmounts without the cap at max_trade_usd
SellAmountsNoCap(eth_balance, price, potential_usd, max_trade_usd) ==
    LET quantity == RDiv(potential_usd, price)
    IN  IF RGt(quantity, eth_balance)
        THEN [quantity |-> eth_balance, trade_usd |-> RMul(eth_balance, price)]
        ELSE [quantity |-> quantity, trade_usd |-> potential_usd]

SellAmounts(eth_balance, price, potential_usd, max_trade_usd) ==
    LET trade_usd == RMin(potential_usd, max_trade_usd)
        quantity  == RDiv(trade_usd, price)
    IN  IF RGt(quantity, eth_balance)
        THEN [quantity |-> eth_balance, trade_usd |-> RMul(eth_balance, price)]
        ELSE [quantity |-> quantity, trade_usd |-> trade_usd]

\* BuyAmounts without the cap at max_trade_usd
BuyAmountsNoCap(usdc_balance, price, potential_usd, max_trade_usd) ==
    IF RGt(potential_usd, usdc_balance)
    THEN [quantity |-> RDiv(usdc_balance, price), trade_usd |-> usdc_balance]
    ELSE [quantity |-> RDiv(potential_usd, price), trade_usd |-> potential_usd]

BuyAmounts(usdc_balance, price, potential_usd, max_trade_usd) ==
    LET trade_usd == RMin(potential_usd, max_trade_usd)
    IN  IF RGt(trade_usd, usdc_balance)
        THEN [quantity |-> RDiv(usdc_balance, price), trade_usd |-> usdc_balance]
        ELSE [quantity |-> RDiv(trade_usd, price), trade_usd |-> trade_usd]

LogEntry(trade_id, action, price, quantity, eth_balance, usdc_balance, consecutive_count, effective_trade_percentage) ==
    [ID |-> trade_id,
     Action |-> action,
     Price |-> round8(price),
     Quantity |-> round8(quantity),
     ETH_Balance |-> round8(eth_balance),
     USDC_Balance |-> round8(usdc_balance),
     Total_Balance_USD |-> round8(RAdd(RMul(eth_balance, price), usdc_balance)),
     Consecutive_Count |-> consecutive_count,
     Effective_Trade_Pct |-> round8(effective_trade_percentage)]

\* Executed writing the log entry of a trade twice
ExecutedLogsTwice(s, action, price, a, cc, eff, eth, usdc) ==
    [s EXCEPT !.eth_balance = eth,
              !.usdc_balance = usdc,
              !.consecutive_count = cc,
              !.base_price = price,
              !.last_action = action,
              !.trade_logs = Append(Append(@, LogEntry(s.trade_id, action, price,
                                                   a.quantity, eth, usdc, cc, eff)),
                                    LogEntry(s.trade_id + 1, action, price,
                                             a.quantity, eth, usdc, cc, eff)),
              !.trade_id = @ + 2]

\* Executed reusing the sequence id for the next record
ExecutedSameId(s, action, price, a, cc, eff, eth, usdc) ==
    [s EXCEPT !.eth_balance = eth,
              !.usdc_balance = usdc,
              !.consecutive_count = cc,
              !.base_price = price,
              !.last_action = action,
              !.trade_logs = Append(@, LogEntry(s.trade_id, action, price,
                                     a.quantity, eth, usdc, cc, eff))]

\* Executed restating the balance columns of the earlier records
ExecutedAmendsLog(s, action, price, a, cc, eff, eth, usdc) ==
    [s EXCEPT !.eth_balance = eth,
              !.usdc_balance = usdc,
              !.consecutive_count = cc,
              !.base_price = price,
              !.last_action = action,
              !.trade_logs =
                  Append([i \in DOMAIN @ |->
                             [@[i] EXCEPT !.ETH_Balance = round8(eth),
                                          !.USDC_Balance = round8(usdc)]],
                         LogEntry(s.trade_id, action, price,
                                  a.quantity, eth, usdc, cc, eff)),
              !.trade_id = @ + 1]

\* the tail of an executed trade: new reference, last action, log entry
Executed(s, action, price, a, cc, eff, eth, usdc) ==
    [s EXCEPT !.eth_balance = eth,
              !.usdc_balance = usdc,
              !.consecutive_count = cc,
              !.base_price = price,
              !.last_action = action,
              !.trade_logs = Append(@, LogEntry(s.trade_id, action, price,
                                     a.quantity, eth, usdc, cc, eff)),
              !.trade_id = @ + 1]

\* Blocked leaving the reference price where it was
BlockedStaleReference(s, action, price, cc) ==
    [s EXCEPT !.consecutive_count = cc,
              !.last_action = action]

Blocked(s, action, price, cc) ==
    [s EXCEPT !.consecutive_count = cc,
              !.base_price = price,
              !.last_action = action]

SimSell(s, price, p) ==
    LET cc  == NextCount(s.last_action, "SELL", s.consecutive_count)
        eff == EffectivePct(p, cc)
        potential_usd == RMul(RMul(s.eth_balance, price), eff)
        a   == SellAmounts(s.eth_balance, price, potential_usd, p.max_trade_usd)
    IN  IF RLt(potential_usd, p.min_trade_usd)
        THEN Blocked(s, "SELL", price, cc)
        ELSE Executed(s, "SELL", price, a, cc, eff,
                      RSub(s.eth_balance, a.quantity),
                      RAdd(s.usdc_balance, a.trade_usd))

SimBuy(s, price, p) ==
    LET cc  == NextCount(s.last_action, "BUY", s.consecutive_count)
        eff == EffectivePct(p, cc)
        potential_usd == RMul(s.usdc_balance, eff)
        a   == BuyAmounts(s.usdc_balance, price, potential_usd, p.max_trade_usd)
    IN  IF RLt(potential_usd, p.min_trade_usd)
        THEN Blocked(s, "BUY", price, cc)
        ELSE Executed(s, "BUY", price, a, cc, eff,
                      RAdd(s.eth_balance, a.quantity),
                      RSub(s.usdc_balance, a.trade_usd))

\* PriceChange as the price ratio, the reference not subtracted
PriceRatio(price, base_price) == RDiv(price, base_price)

PriceChange(price, base_price) == RDiv(RSub(price, base_price), base_price)

\* InitialSplit that leaves the reference price unset
InitialSplitNoReference(s, price) ==
    LET half_usd == RDiv(INITIAL_USDC_BALANCE, RInt(2))
    IN  [s EXCEPT !.usdc_balance = half_usd,
                  !.eth_balance = RDiv(half_usd, price)]

InitialSplit(s, price) ==
    LET half_usd == RDiv(INITIAL_USDC_BALANCE, RInt(2))
    IN  [s EXCEPT !.base_price = price,
                  !.usdc_balance = half_usd,
                  !.eth_balance = RDiv(half_usd, price)]

\* SimRow moving the reference price on a sample inside the trigger band
SimRowMovesReference(s, row, p) ==
    IF row.close_price = Unparseable THEN s
    ELSE IF ~TimestampOk(row.timestamp_open) THEN s
    ELSE LET price == row.close_price IN
         IF s.base_price = None THEN InitialSplit(s, price)
         ELSE LET price_change == PriceChange(price, s.base_price) IN
              IF RGe(price_change, p.trigger_percentage)
              THEN SimSell(s, price, p)
              ELSE IF RLe(price_change, RNeg(p.trigger_percentage))
              THEN SimBuy(s, price, p)
              ELSE [s EXCEPT !.base_price = price]

\* SimRow selling on a fall and buying on a rise
SimRowContrarian(s, row, p) ==
    IF row.close_price = Unparseable THEN s
    ELSE IF ~TimestampOk(row.timestamp_open) THEN s
    ELSE LET price == row.close_price IN
         IF s.base_price = None THEN InitialSplit(s, price)
         ELSE LET price_change == PriceChange(price, s.base_price) IN
              IF RGe(price_change, p.trigger_percentage)
              THEN SimBuy(s, price, p)
              ELSE IF RLe(price_change, RNeg(p.trigger_percentage))
              THEN SimSell(s, price, p)
              ELSE s

\* one iteration of the loop over df.iterrows()
SimRow(s, row, p) ==
    IF row.close_price = Unparseable THEN s
    ELSE IF ~TimestampOk(row.timestamp_open) THEN s
    ELSE LET price == row.close_price IN
         IF s.base_price = None THEN InitialSplit(s, price)
         ELSE LET price_change == PriceChange(price, s.base_price) IN
              IF RGe(price_change, p.trigger_percentage)
              THEN SimSell(s, price, p)
              ELSE IF RLe(price_change, RNeg(p.trigger_percentage))
              THEN SimBuy(s, price, p)
              ELSE s

\* simulate_trading of backtest/02_multibacktest.py over a whole series
RECURSIVE SimRun(_, _)
SimRun(rows, p) ==
    IF rows = <<>> THEN SimInit
    ELSE SimRow(SimRun(SubSeq(rows, 1, Len(rows) - 1), p), Last(rows), p)

\* ------------------------------------------------------------------------
\* archive/backtest.py: simulate_trading
\* ------------------------------------------------------------------------
ArchiveLogEntry(trade_id, action, price, quantity, trade_usd, eth_balance, usdc_balance, consecutive_count, effective_trade_percentage) ==
    [ID |-> trade_id,
     Action |-> action,
     Price |-> round8(price),
     Quantity |-> round8(quantity),
     ETH_Balance |-> round8(eth_balance),
     USDC_Balance |-> round8(usdc_balance),
     ETH_USD_Price |-> round8(price),
     USDC_USD_Price |-> <<1, 0>>,
     ETH_USD_Value |-> round8(RMul(eth_balance, price)),
     USDC_USD_Value |-> round8(usdc_balance),
     Trade_USD_Value |-> round8(trade_usd),
     Total_Balance_USD |-> round8(RAdd(RMul(eth_balance, price), usdc_balance)),
     Consecutive_Count |-> consecutive_count,
     Actual_Trade_Percentage |-> round8(effective_trade_percentage)]

ArchiveExecuted(s, action, price, a, cc, eff, eth, usdc) ==
    [s EXCEPT !.eth_balance = eth,
              !.usdc_balance = usdc,
              !.consecutive_count = cc,
              !.base_price = price,
              !.last_action = action,
              !.trade_logs = Append(@, ArchiveLogEntry(s.trade_id, action, price,
                                     a.quantity, a.trade_usd, eth, usdc, cc, eff)),
              !.trade_id = @ + 1]

ArchiveSell(s, price) ==
    LET cc  == NextCount(s.last_action, "SELL", s.consecutive_count)
        eff == EffectivePct(ArchiveParams, cc)
        potential_usd == RMul(RMul(s.eth_balance, price), eff)
        a   == SellAmounts(s.eth_balance, price, potential_usd, ArchiveParams.max_trade_usd)
    IN  IF RLt(potential_usd, ArchiveParams.min_trade_usd)
        THEN Blocked(s, "SELL", price, cc)
        ELSE ArchiveExecuted(s, "SELL", price, a, cc, eff,
                             RSub(s.eth_balance, a.quantity),
                             RAdd(s.usdc_balance, a.trade_usd))

ArchiveBuy(s, price) ==
    LET cc  == NextCount(s.last_action, "BUY", s.consecutive_count)
        eff == EffectivePct(ArchiveParams, cc)
        potential_usd == RMul(s.usdc_balance, eff)
        a   == BuyAmounts(s.usdc_balance, price, potential_usd, ArchiveParams.max_trade_usd)
    IN  IF RLt(potential_usd, ArchiveParams.min_trade_usd)
        THEN Blocked(s, "BUY", price, cc)
        ELSE ArchiveExecuted(s, "BUY", price, a, cc, eff,
                             RAdd(s.eth_balance, a.quantity),
                             RSub(s.usdc_balance, a.trade_usd))

\* one iteration of the loop: an unparseable price skips the row, an
\* unparseable timestamp raises out of the function, and there is no range
\* check on the timestamp
ArchiveRow(s, row) ==
    IF row.close_price = Unparseable THEN s
    ELSE IF row.timestamp_open = "unparseable" THEN [s EXCEPT !.error = "ValueError"]
    ELSE LET price == row.close_price IN
         IF s.base_price = None THEN InitialSplit(s, price)
         ELSE LET price_change == PriceChange(price, s.base_price) IN
              IF RGe(price_change, ArchiveParams.trigger_percentage)
              THEN ArchiveSell(s, price)
              ELSE IF RLe(price_change, RNeg(ArchiveParams.trigger_percentage))
              THEN ArchiveBuy(s, price)
              ELSE s

\* ------------------------------------------------------------------------
\* backtest/06_cc_output_enabled.py: simulate_trading_across_all_files
\* ------------------------------------------------------------------------
INITIAL_BASE_BALANCE == RInt(1)

log_trades == TRUE

CCParams(b, t, mx, mn, m) ==
    [base_trade_percentage |-> b, trigger_percentage |-> t,
     max_trade_percentage |-> mx, min_trade_percentage |-> mn, multiplier |-> m]

CCParamCombos ==
    { CCParams(Rat(1, 2),  Rat(1, 2),   Rat(1, 4),  Rat(1, 100), RInt(2)),
      CCParams(RInt(1),    Rat(3, 100), Rat(1, 2),  Rat(1, 100), RInt(2)),
      CCParams(Rat(1, 10), Rat(1, 2),   Zero,       Zero,        RInt(1)),
      CCParams(Rat(1, 10), Rat(3, 100), Rat(1, 10), Rat(1, 5),   RInt(5)),
      CCParams(Rat(1, 50), Rat(1, 10),  Rat(1, 10), Rat(1, 200), RInt(5)),
      CCParams(RInt(1),    Rat(1, 2),   RInt(1),    Zero,        RInt(2)) }

CCInit ==
    [base_balance |-> Zero, quote_balance |-> Zero, base_price |-> None,
     consecutive_count |-> 0, last_action |-> "None", trade_count |-> 0,
     starting_price |-> None, final_price |-> None,
     trades_log |-> <<>>, trade_id |-> 1,
     file |-> 0, df_open |-> FALSE]

CCLogEntry(trade_id, action, price, quantity, base_balance, quote_balance, consecutive_count, actual_trade_percentage) ==
    [ID |-> trade_id,
     Action |-> action,
     Price |-> fmt6(price),
     Quantity |-> fmt6(quantity),
     Base_Balance |-> fmt6(base_balance),
     Quote_Balance |-> fmt6(quote_balance),
     Total_Balance_Base |-> fmt6(RAdd(base_balance, RDiv(quote_balance, price))),
     Total_Balance_Quote |-> fmt6(RAdd(quote_balance, RMul(base_balance, price))),
     Consecutive_Count |-> consecutive_count,
     Actual_Trade_Percentage |-> fmt6(actual_trade_percentage)]

\* lines 250-273: log the trade, then move the reference
CCExecuted(s, action, price, quantity, cc, base, quote, actual) ==
    [s EXCEPT !.base_balance = base,
              !.quote_balance = quote,
              !.consecutive_count = cc,
              !.trade_count = @ + 1,
              !.trades_log = IF log_trades
                             THEN Append(@, CCLogEntry(s.trade_id, action, price,
                                            quantity, base, quote, cc, actual))
                             ELSE @,
              !.trade_id = IF log_trades THEN @ + 1 ELSE @,
              !.base_price = price,
              !.last_action = action]

CCBlocked(s, action, price, cc) ==
    [s EXCEPT !.consecutive_count = cc,
              !.base_price = price,
              !.last_action = action]

\* "if quantity <= 0: continue": only the count has been updated
CCZero(s, cc) == [s EXCEPT !.consecutive_count = cc]

CCSellQuantity(base_balance, potential_base_quantity, max_trade_quantity) ==
    LET quantity == RMin(potential_base_quantity, max_trade_quantity)
    IN  IF RGt(quantity, base_balance) THEN base_balance ELSE quantity

CCBuyValue(quote_balance, potential_quote_value, max_trade_value_quote) ==
    LET trade_value_quote == RMin(potential_quote_value, max_trade_value_quote)
    IN  IF RGt(trade_value_quote, quote_balance) THEN quote_balance
        ELSE trade_value_quote

CCSell(s, price, p) ==
    LET cc  == NextCount(s.last_action, "SELL", s.consecutive_count)
        eff == EffectivePct(p, cc)
        potential_base_quantity == RMul(s.base_balance, eff)
        total_balance_in_base == RAdd(s.base_balance, RDiv(s.quote_balance, price))
        min_trade_quantity == RMul(total_balance_in_base, p.min_trade_percentage)
        max_trade_quantity == RMul(total_balance_in_base, p.max_trade_percentage)
        quantity == CCSellQuantity(s.base_balance, potential_base_quantity,
                                   max_trade_quantity)
        trade_value_quote == RMul(quantity, price)
        base == RSub(s.base_balance, quantity)
        actual == IF RGt(RAdd(base, quantity), Zero)
                  THEN RDiv(quantity, RAdd(base, quantity)) ELSE Zero
    IN  IF RLt(potential_base_quantity, min_trade_quantity)
        THEN CCBlocked(s, "SELL", price, cc)
        ELSE IF RLe(quantity, Zero) THEN CCZero(s, cc)
        ELSE CCExecuted(s, "SELL", price, quantity, cc, base,
                        RAdd(s.quote_balance, trade_value_quote), actual)

CCBuy(s, price, p) ==
    LET cc  == NextCount(s.last_action, "BUY", s.consecutive_count)
        eff == EffectivePct(p, cc)
        potential_quote_value == RMul(s.quote_balance, eff)
        total_balance_in_base == RAdd(s.base_balance, RDiv(s.quote_balance, price))
        min_trade_value_quote ==
            RMul(RMul(total_balance_in_base, p.min_trade_percentage), price)
        max_trade_value_quote ==
            RMul(RMul(total_balance_in_base, p.max_trade_percentage), price)
        trade_value_quote == CCBuyValue(s.quote_balance, potential_quote_value,
                                        max_trade_value_quote)
        quantity == RDiv(trade_value_quote, price)
        quote == RSub(s.quote_balance, trade_value_quote)
        actual == IF RGt(RAdd(quote, trade_value_quote), Zero)
                  THEN RDiv(trade_value_quote, RAdd(quote, trade_value_quote))
                  ELSE Zero
    IN  IF RLt(potential_quote_value, min_trade_value_quote)
        THEN CCBlocked(s, "BUY", price, cc)
        ELSE IF RLe(trade_value_quote, Zero) THEN CCZero(s, cc)
        ELSE CCExecuted(s, "BUY", price, quantity, cc,
                        RAdd(s.base_balance, quantity), quote, actual)

CCInitialSplit(s, price) ==
    LET half_base == RDiv(INITIAL_BASE_BALANCE, RInt(2))
    IN  [s EXCEPT !.base_price = price,
                  !.starting_price = price,
                  !.base_balance = half_base,
                  !.quote_balance = RMul(half_base, price)]

\* one iteration of the inner loop over df.iterrows()
CCRow(s, row, p) ==
    IF row.close_price = Unparseable THEN s
    ELSE LET price == row.close_price
             s1 == [s EXCEPT !.final_price = price]
         IN
         IF ~TimestampOk(row.timestamp_open) THEN s1
         ELSE IF s1.base_price = None /\ s1.starting_price = None
         THEN CCInitialSplit(s1, price)
         ELSE LET price_change == PriceChange(price, s1.base_price) IN
              IF RGe(price_change, p.trigger_percentage)
              THEN CCSell(s1, price, p)
              ELSE IF RLe(price_change, RNeg(p.trigger_percentage))
              THEN CCBuy(s1, price, p)
              ELSE s1

\* CCNextFile starting every file from the constructor state
CCNextFileReset(s, readable) ==
    [CCInit EXCEPT !.file = s.file + 1, !.df_open = readable,
                   !.final_price = s.final_price]

\* the outer loop takes the next file; a file pd.read_csv cannot read is
\* skipped
CCNextFile(s, readable) ==
    [s EXCEPT !.file = @ + 1, !.df_open = readable]

read_next_file ==
    /\ engine = "cc_output"
    /\ cont.file < MaxFiles
    /\ \E readable \in BOOLEAN : cont' = CCNextFile(cont, readable)
    /\ UNCHANGED <<usd, price_cache, stamp, sweep, evals, agg, engine, params, df, sim, live, sampler>>

simulate_trading_across_all_files ==
    /\ engine = "cc_output"
    /\ cont.df_open
    /\ Len(df) < MaxContRows
    /\ \E row \in Rows(CCPrices, P100, P200) :
          /\ df' = Append(df, row)
          /\ cont' = CCRow(cont, row, params)
    /\ UNCHANGED <<usd, price_cache, stamp, sweep, evals, agg, engine, params, sim, live, sampler>>

\* ------------------------------------------------------------------------
\* backtest/archive/E2E.py: simulate_trading_across_all_files
\* ------------------------------------------------------------------------
E2EInit ==
    [eth_balance |-> Zero, usdc_balance |-> INITIAL_USDC_BALANCE,
     base_price |-> None, consecutive_count |-> 0, last_action |-> "None",
     first_trade |-> TRUE, final_price |-> None,
     file |-> 0, df_open |-> FALSE, idx |-> 0]

\* lines 181-182 after an executed trade (no trade log in this script)
E2EExecuted(s, action, price, cc, eth, usdc) ==
    [s EXCEPT !.eth_balance = eth,
              !.usdc_balance = usdc,
              !.consecutive_count = cc,
              !.base_price = price,
              !.last_action = action]

E2ESellStep(s, price, p) ==
    LET cc  == NextCount(s.last_action, "SELL", s.consecutive_count)
        eff == EffectivePct(p, cc)
        potential_usd == RMul(RMul(s.eth_balance, price), eff)
        a   == SellAmounts(s.eth_balance, price, potential_usd, p.max_trade_usd)
    IN  IF RLt(potential_usd, p.min_trade_usd)
        THEN Blocked(s, "SELL", price, cc)
        ELSE E2EExecuted(s, "SELL", price, cc,
                         RSub(s.eth_balance, a.quantity),
                         RAdd(s.usdc_balance, a.trade_usd))

E2EBuyStep(s, price, p) ==
    LET cc  == NextCount(s.last_action, "BUY", s.consecutive_count)
        eff == EffectivePct(p, cc)
        potential_usd == RMul(s.usdc_balance, eff)
        a   == BuyAmounts(s.usdc_balance, price, potential_usd, p.max_trade_usd)
    IN  IF RLt(potential_usd, p.min_trade_usd)
        THEN Blocked(s, "BUY", price, cc)
        ELSE E2EExecuted(s, "BUY", price, cc,
                         RAdd(s.eth_balance, a.quantity),
                         RSub(s.usdc_balance, a.trade_usd))

\* E2ENextFile starting every file from the constructor state
E2ENextFileReset(s, readable) ==
    [E2EInit EXCEPT !.file = s.file + 1, !.df_open = readable,
                    !.final_price = s.final_price]

\* the outer loop takes the next file; a file pd.read_csv cannot read is
\* skipped
E2ENextFile(s, readable) ==
    [s EXCEPT !.file = @ + 1, !.df_open = readable, !.idx = 0]

\* one iteration of the inner loop over df.iterrows()
E2ERow(s, row, p) ==
    IF row.close_price = Unparseable THEN s
    ELSE LET price == row.close_price
             s1 == [s EXCEPT !.final_price = price]
         IN
         IF ~TimestampOk(row.timestamp_open) THEN s1
         ELSE IF s1.base_price = None THEN InitialSplit(s1, price)
         ELSE LET price_change == PriceChange(price, s1.base_price) IN
              IF RGe(price_change, p.trigger_percentage)
              THEN E2ESellStep(s1, price, p)
              ELSE IF RLe(price_change, RNeg(p.trigger_percentage))
              THEN E2EBuyStep(s1, price, p)
              ELSE s1

E2EParamCombos ==
    { Params(Rat(1, 5), Rat(3, 100), RInt(750),  RInt(15),  Rat(11, 10)),
      Params(Rat(1, 5), Rat(1, 2),   RInt(750),  RInt(300), RInt(2)),
      Params(RInt(1),   Rat(1, 2),   RInt(5000), RInt(10),  RInt(2)) }

E2E_read_next_file ==
    /\ engine = "e2e"
    /\ sim.file < MaxFiles
    /\ \E readable \in BOOLEAN : sim' = E2ENextFile(sim, readable)
    /\ UNCHANGED <<usd, price_cache, stamp, sweep, evals, agg, engine, params, df, cont, live, sampler>>

E2E_simulate_trading_across_all_files ==
    /\ engine = "e2e"
    /\ sim.df_open
    /\ Len(df) < MaxContRows
    /\ \E row \in Rows(Prices, P100, P200) :
          /\ df' = Append(df, row)
          /\ sim' = [E2ERow(sim, row, params) EXCEPT !.idx = @ + 1]
    /\ UNCHANGED <<usd, price_cache, stamp, sweep, evals, agg, engine, params, cont, live, sampler>>

\* ------------------------------------------------------------------------
\* main.py: the live trader, one invocation of process_trading_pair
\* ------------------------------------------------------------------------
MaxCalls == 3

PairConfig(tp, m, tr, mx, mn) ==
    [trade_percentage |-> tp, multiplier |-> m, trigger_percentage |-> tr,
     max_amount |-> mx, minimum_amount |-> mn]

PairConfigs ==
    { PairConfig(Rat(1, 5), RInt(2),     Rat(1, 4), Zero,     Zero),
      PairConfig(Rat(1, 5), Rat(11, 10), Rat(1, 4), RInt(50), RInt(10)),
      PairConfig(RInt(1),   RInt(2),     Rat(1, 4), Zero,     RInt(1000)),
      PairConfig(Rat(3, 4), RInt(2),     Rat(1, 4), Zero,     Zero) }

\* 0.01171875, a quotation with more than the 6 decimals the logs keep
P3_256 == Rat(3, 256)

LivePrices == {P50, P100, P103, P200, P3_256}

\* what the exchange answers during one invocation
Exchange ==
    [price : LivePrices,
     balances : {<<RInt(2), RInt(100)>>, <<Zero, RInt(500)>>},
     usd : {<<RInt(100), RInt(1)>>, <<Zero, Zero>>},
     order_fails : BOOLEAN]

LiveInit ==
    [PRODUCTION |-> FALSE, calls |-> 0,
     price_log |-> <<>>, trades_log |-> <<>>,
     orders |-> <<>>, notifications |-> <<>>,
     last |-> [outcome |-> "none"]]

\* float(cell) of a cell written with k decimals
DecToRat(dec, k) == Rat(dec[1] * Pow10(k) + dec[2], Pow10(k))

\* f"{row_id:06d}": the decimal digits, padded with zeros to 6 places
fmt06d(row_id) == [i \in 1..6 |-> (row_id \div Pow10(6 - i)) % 10]

\* int(cell) of a cell of decimal digits
RECURSIVE int(_)
int(cell) ==
    IF cell = <<>> THEN 0
    ELSE 10 * int(SubSeq(cell, 1, Len(cell) - 1)) + cell[Len(cell)]

\* get_last_id answering the id of the last row again
get_last_id_repeats(rows) ==
    IF Len(rows) = 0 THEN 1 ELSE int(rows[Len(rows)].ID)

\* rows are the data rows of the file: none when the file is missing or
\* holds its header only
get_last_id(rows) ==
    IF Len(rows) = 0 THEN 1 ELSE int(rows[Len(rows)].ID) + 1

store_price(price_log, price, base_flag) ==
    Append(price_log,
           [ID |-> fmt06d(get_last_id(price_log)), Price |-> fmt6(price), Base |-> base_flag])

RECURSIVE LastBaseRow(_, _)
LastBaseRow(rows, i) ==
    IF i = 0 THEN 0
    ELSE IF rows[i].Base = 1 THEN i ELSE LastBaseRow(rows, i - 1)

\* get_base_price reading the last row whatever its Base flag
get_base_price_any_row(price_log) ==
    IF Len(price_log) = 0 THEN None
    ELSE DecToRat(price_log[Len(price_log)].Price, 6)

get_base_price(price_log) ==
    LET i == LastBaseRow(price_log, Len(price_log))
    IN  IF i = 0 THEN None ELSE DecToRat(price_log[i].Price, 6)

get_last_trade_action(trades_log) ==
    IF Len(trades_log) = 0 THEN <<"None", 0>>
    ELSE <<trades_log[Len(trades_log)].Action,
           trades_log[Len(trades_log)].Consecutive_Count>>

calculate_multiplied_trade_percentage(base_percentage, multiplier, current_action, last_action, last_consecutive_count) ==
    IF last_action = current_action
    THEN LET consecutive_count == last_consecutive_count + 1
             multiplied == RMul(base_percentage, RPow(multiplier, consecutive_count))
         IN  <<RMin(multiplied, Rat(1, 2)), consecutive_count>>
    ELSE <<base_percentage, 0>>

\* ZeroDivisionError: a positive max_amount divided by a USD price of 0
TradeAmountsRaise(action, max_amount, base_usd_price, quote_usd_price) ==
    /\ RGt(max_amount, Zero)
    /\ IF action = "SELL" THEN base_usd_price = Zero ELSE quote_usd_price = Zero

calculate_trade_amounts(action, base_balance, quote_balance, price, trade_percentage, max_amount, minimum_amount, base_usd_price, quote_usd_price) ==
    IF action = "SELL"
    THEN LET qty_from_percentage == RMul(base_balance, trade_percentage)
             qty == IF RGt(max_amount, Zero)
                    THEN RMin(qty_from_percentage, RDiv(max_amount, base_usd_price))
                    ELSE qty_from_percentage
             trade_value_usd == RMul(qty, base_usd_price)
         IN  [qty |-> qty, trade_value_usd |-> trade_value_usd,
              meets_minimum |-> RGe(trade_value_usd, minimum_amount)]
    ELSE LET quote_pct == RMul(quote_balance, trade_percentage)
             quote_to_trade == IF RGt(max_amount, Zero)
                               THEN RMin(quote_pct, RDiv(max_amount, quote_usd_price))
                               ELSE quote_pct
             trade_value_usd == RMul(quote_to_trade, quote_usd_price)
         IN  [qty |-> RDiv(quote_to_trade, price), trade_value_usd |-> trade_value_usd,
              meets_minimum |-> RGe(trade_value_usd, minimum_amount)]

\* calculate_new_balances charging a BUY the quantity instead of its value
calculate_new_balances_no_price(action, base_balance, quote_balance, qty, price) ==
    IF action = "SELL"
    THEN <<RSub(base_balance, qty), RAdd(quote_balance, RMul(qty, price))>>
    ELSE <<RAdd(base_balance, qty), RSub(quote_balance, qty)>>

calculate_new_balances(action, base_balance, quote_balance, qty, price) ==
    IF action = "SELL"
    THEN <<RSub(base_balance, qty), RAdd(quote_balance, RMul(qty, price))>>
    ELSE <<RAdd(base_balance, qty), RSub(quote_balance, RMul(qty, price))>>

log_trade(trades_log, action, price, qty, base_balance, quote_balance, consecutive_count, actual_trade_percentage) ==
    Append(trades_log,
           [ID |-> fmt06d(get_last_id(trades_log)),
            Action |-> action,
            Price |-> fmt6(price),
            Quantity |-> fmt6(qty),
            Base_Balance |-> fmt6(base_balance),
            Quote_Balance |-> fmt6(quote_balance),
            Consecutive_Count |-> consecutive_count,
            Actual_Trade_Percentage |-> fmt6(actual_trade_percentage)])

\* execute_trade without the PRODUCTION test of line 373
execute_trade_always_orders(orders, production, action, quantity) ==
    [orders |-> Append(orders, [side |-> action, quantity |-> fmt6(quantity)]),
     order |-> "ORDER"]

\* lines 373-386: the SIMULATION result, or the market order handed to the
\* exchange client and the order it answers
execute_trade(orders, production, action, quantity) ==
    IF ~production THEN [orders |-> orders, order |-> "SIMULATION"]
    ELSE [orders |-> Append(orders, [side |-> action, quantity |-> fmt6(quantity)]),
          order |-> "ORDER"]

\* process_trade_signal storing the new base price before the order is placed
process_trade_signal_stores_first(l, cfg, x, action, base_price) ==
    LET la  == get_last_trade_action(l.trades_log)
        pc  == calculate_multiplied_trade_percentage(cfg.trade_percentage,
                   cfg.multiplier, action, la[1], la[2])
        amt == calculate_trade_amounts(action, x.balances[1], x.balances[2],
                   x.price, pc[1], cfg.max_amount, cfg.minimum_amount,
                   x.usd[1], x.usd[2])
        nb  == calculate_new_balances(action, x.balances[1], x.balances[2],
                   amt.qty, x.price)
        trade == [action |-> action, qty |-> amt.qty, price |-> x.price,
                  base_price |-> base_price,
                  base_balance |-> x.balances[1], quote_balance |-> x.balances[2],
                  new_base_balance |-> nb[1], new_quote_balance |-> nb[2],
                  consecutive_count |-> pc[2], actual_trade_percentage |-> pc[1]]
    IN  IF TradeAmountsRaise(action, cfg.max_amount, x.usd[1], x.usd[2])
        THEN [l EXCEPT !.last = [outcome |-> "error", ret |-> FALSE]]
        ELSE IF ~amt.meets_minimum
        THEN [l EXCEPT !.price_log = store_price(@, x.price, 1),
                       !.last = [outcome |-> "too_small", ret |-> TRUE,
                                 action |-> action,
                                 actual_trade_percentage |-> pc[1]]]
        ELSE IF l.PRODUCTION /\ x.order_fails
        THEN [l EXCEPT !.price_log = store_price(@, x.price, 1),
                       !.last = [outcome |-> "failed", ret |-> FALSE,
                                 action |-> action,
                                 actual_trade_percentage |-> pc[1]]]
        ELSE LET executed == execute_trade(l.orders, l.PRODUCTION, action, amt.qty)
             IN  [l EXCEPT !.orders = executed.orders,
                           !.trades_log = log_trade(@, action, x.price, amt.qty,
                                                    nb[1], nb[2], pc[2], pc[1]),
                           !.price_log = store_price(@, x.price, 1),
                           !.notifications = Append(@, trade),
                           !.last = [outcome |-> "traded", ret |-> TRUE,
                                     action |-> action, order |-> executed.order,
                                     actual_trade_percentage |-> pc[1]]]

process_trade_signal(l, cfg, x, action, base_price) ==
    LET la  == get_last_trade_action(l.trades_log)
        pc  == calculate_multiplied_trade_percentage(cfg.trade_percentage,
                   cfg.multiplier, action, la[1], la[2])
        amt == calculate_trade_amounts(action, x.balances[1], x.balances[2],
                   x.price, pc[1], cfg.max_amount, cfg.minimum_amount,
                   x.usd[1], x.usd[2])
        nb  == calculate_new_balances(action, x.balances[1], x.balances[2],
                   amt.qty, x.price)
        trade == [action |-> action, qty |-> amt.qty, price |-> x.price,
                  base_price |-> base_price,
                  base_balance |-> x.balances[1], quote_balance |-> x.balances[2],
                  new_base_balance |-> nb[1], new_quote_balance |-> nb[2],
                  consecutive_count |-> pc[2], actual_trade_percentage |-> pc[1]]
    IN  IF TradeAmountsRaise(action, cfg.max_amount, x.usd[1], x.usd[2])
        THEN [l EXCEPT !.last = [outcome |-> "error", ret |-> FALSE]]
        ELSE IF ~amt.meets_minimum
        THEN [l EXCEPT !.price_log = store_price(@, x.price, 1),
                       !.last = [outcome |-> "too_small", ret |-> TRUE,
                                 action |-> action,
                                 actual_trade_percentage |-> pc[1]]]
        ELSE IF l.PRODUCTION /\ x.order_fails
        THEN [l EXCEPT !.last = [outcome |-> "failed", ret |-> FALSE,
                                 action |-> action,
                                 actual_trade_percentage |-> pc[1]]]
        ELSE LET executed == execute_trade(l.orders, l.PRODUCTION, action, amt.qty)
             IN  [l EXCEPT !.orders = executed.orders,
                           !.trades_log = log_trade(@, action, x.price, amt.qty,
                                                    nb[1], nb[2], pc[2], pc[1]),
                           !.price_log = store_price(@, x.price, 1),
                           !.notifications = Append(@, trade),
                           !.last = [outcome |-> "traded", ret |-> TRUE,
                                     action |-> action, order |-> executed.order,
                                     actual_trade_percentage |-> pc[1]]]

LiveStep(l, cfg, x) ==
    LET base_price == get_base_price(l.price_log)
        l1 == [l EXCEPT !.calls = @ + 1]
    IN  IF base_price = None
        THEN [l1 EXCEPT !.price_log = store_price(@, x.price, 1),
                        !.last = [outcome |-> "init", ret |-> TRUE]]
        ELSE LET move_pct == PriceChange(x.price, base_price) IN
             IF RGe(move_pct, cfg.trigger_percentage)
             THEN process_trade_signal(l1, cfg, x, "SELL", base_price)
             ELSE IF RLe(move_pct, RNeg(cfg.trigger_percentage))
             THEN process_trade_signal(l1, cfg, x, "BUY", base_price)
             ELSE [l1 EXCEPT !.price_log = store_price(@, x.price, 0),
                             !.last = [outcome |-> "no_trade", ret |-> TRUE]]

process_trading_pair ==
    /\ engine = "live"
    /\ live.calls < MaxCalls
    /\ \E x \in Exchange : live' = LiveStep(live, params, x)
    /\ UNCHANGED <<usd, price_cache, stamp, sweep, evals, agg, engine, params, df, sim, cont, sampler>>

\* ------------------------------------------------------------------------
\* backtest/02_multibacktest.py: the parameter grid and random.sample
\* ------------------------------------------------------------------------
MaxCombos == 4

\* the swept lists: the leading value of the first three lists,
\* min_trade_usd_values in full, the leading three multipliers
base_trade_percentages == <<Rat(1, 10)>>
trigger_percentages    == <<Rat(1, 50)>>
max_trade_usd_values   == <<RInt(750)>>
min_trade_usd_values   == <<RInt(15)>>
multipliers            == <<Rat(21, 20), Rat(11, 10), Rat(11, 10)>>

GridSize ==
    Len(base_trade_percentages) * Len(trigger_percentages)
        * Len(max_trade_usd_values) * Len(min_trade_usd_values) * Len(multipliers)

\* itertools.product: the last list varies fastest
full_grid ==
    [n \in 1..GridSize |->
        LET i5 == (n - 1) % Len(multipliers)
            r4 == (n - 1) \div Len(multipliers)
            i4 == r4 % Len(min_trade_usd_values)
            r3 == r4 \div Len(min_trade_usd_values)
            i3 == r3 % Len(max_trade_usd_values)
            r2 == r3 \div Len(max_trade_usd_values)
            i2 == r2 % Len(trigger_percentages)
            i1 == r2 \div Len(trigger_percentages)
        IN  <<base_trade_percentages[i1 + 1], trigger_percentages[i2 + 1],
              max_trade_usd_values[i3 + 1], min_trade_usd_values[i4 + 1],
              multipliers[i5 + 1]>>]

SamplerInit == [NUM_COMBOS |-> 0, picked |-> <<>>, status |-> "idle"]

Range(f) == {f[i] : i \in DOMAIN f}

\* the combinations at the picked grid positions
sampled_param_combos ==
    [i \in 1..Len(sampler.picked) |-> full_grid[sampler.picked[i]]]

\* random.sample(full_grid, NUM_COMBOS): positions are drawn one at a time,
\* never the same position twice; a request larger than the population raises
\* SampleRaises accepting a request of one more than the population
SampleRaisesOffByOne(k, n) == k > n + 1

\* random.sample: "Sample larger than population"
SampleRaises(k, n) == k > n

random_sample ==
    /\ engine \in {"sampler", "sweep"}
    /\ sampler.status \in {"idle", "sampling"}
    /\ IF SampleRaises(sampler.NUM_COMBOS, GridSize)
       THEN sampler' = [sampler EXCEPT !.status = "ValueError"]
       ELSE IF Len(sampler.picked) = sampler.NUM_COMBOS
       THEN sampler' = [sampler EXCEPT !.status = "done"]
       ELSE \E pos \in (1..GridSize) \ Range(sampler.picked) :
               sampler' = [sampler EXCEPT !.picked = Append(@, pos),
                                          !.status = "sampling"]
    /\ UNCHANGED <<usd, price_cache, stamp, sweep, evals, agg, engine, params, df, sim, cont, live>>

\* ------------------------------------------------------------------------
\* backtest/02_multibacktest.py: monthly_info and the aggregation by trend
\* ------------------------------------------------------------------------
MaxMonths == 2

BULLISH_THRESHOLD == Rat(1, 10)
BEARISH_THRESHOLD == RNeg(Rat(1, 10))

\* classify_market_trend with the Bearish test made strict
classify_market_trend_strict(open_price, close_price) ==
    LET pct_change == RDiv(RSub(close_price, open_price), open_price)
    IN  IF RGe(pct_change, BULLISH_THRESHOLD) THEN "Bullish"
        ELSE IF RLt(pct_change, BEARISH_THRESHOLD) THEN "Bearish"
        ELSE "Sideways"

classify_market_trend(open_price, close_price) ==
    LET pct_change == RDiv(RSub(close_price, open_price), open_price)
    IN  IF RGe(pct_change, BULLISH_THRESHOLD) THEN "Bullish"
        ELSE IF RLe(pct_change, BEARISH_THRESHOLD) THEN "Bearish"
        ELSE "Sideways"

P90  == RInt(90)
P105 == RInt(105)
P110 == RInt(110)
P120 == RInt(120)

MonthRow(price) == [close_price |-> price, timestamp_open |-> "ok"]

\* the month files offered to the aggregation loop
MonthFiles ==
    { <<MonthRow(P100), MonthRow(P120)>>,
      <<MonthRow(P100), MonthRow(P110)>>,
      <<MonthRow(P100), MonthRow(P105)>>,
      <<MonthRow(P100), MonthRow(P90)>>,
      <<MonthRow(P100), MonthRow(Unparseable), MonthRow(P120), MonthRow(P90)>>,
      <<MonthRow(Unparseable), MonthRow(P100)>>,
      <<[close_price |-> P100, timestamp_open |-> "out_of_range"], MonthRow(P120)>> }

\* lines 221-229: the parameters of the first sampled combination, the
\* iteration of the combination loop that is modelled
CurrentParams ==
    LET combo == sampled_param_combos[1]
    IN  Params(combo[1], combo[2], combo[3], combo[4], combo[5])

NoInfo == [trend |-> "None"]

\* lines 192-214: the entry of monthly_info for a file, or none when the
\* file cannot be read or its first or last closing price cannot be parsed
MonthlyInfo(readable, file) ==
    IF ~readable \/ file = <<>> THEN NoInfo
    ELSE IF file[1].close_price = Unparseable
            \/ file[Len(file)].close_price = Unparseable THEN NoInfo
    ELSE [open |-> file[1].close_price,
          close |-> file[Len(file)].close_price,
          trend |-> classify_market_trend(file[1].close_price,
                                          file[Len(file)].close_price)]

Trends == <<"Bullish", "Bearish", "Sideways">>

AggInit ==
    [phase |-> "idle", month |-> 0, file |-> <<>>, info |-> NoInfo,
     results_by_trend |-> [t \in {"Bullish", "Bearish", "Sideways"} |-> <<>>],
     analysis_records |-> <<>>]

\* SimStart keeping the locals of the previous call
SimStartCarry(previous) == previous

\* lines 67-73: every call of simulate_trading builds its locals anew
SimStart(previous) == SimInit

\* lines 254-274: the outcome of one month
MonthResult(info, file, s) ==
    LET final_value == RAdd(s.usdc_balance, RMul(s.eth_balance, info.close))
        half_value  == RDiv(INITIAL_USDC_BALANCE, RInt(2))
        eth_hold    == RDiv(half_value, info.open)
        hold_final_value == RAdd(half_value, RMul(eth_hold, info.close))
    IN  [Month_File |-> file,
         Open_Price |-> info.open,
         Close_Price |-> info.close,
         Market_Trend |-> info.trend,
         Num_Trades |-> Len(s.trade_logs),
         Final_Portfolio_USD |-> final_value,
         Profit_Trading_USD |-> RSub(final_value, INITIAL_USDC_BALANCE),
         Profit_Hold_USD |-> RSub(hold_final_value, INITIAL_USDC_BALANCE)]

RECURSIVE RSum(_)
RSum(xs) == IF xs = <<>> THEN Zero ELSE RAdd(xs[1], RSum(Tail(xs)))

\* Series.mean()
Mean(xs) == RDiv(RSum(xs), RInt(Len(xs)))

\* round(x, 2) of a value of either sign
round2(x) ==
    IF x[1] < 0 THEN <<"-", RoundTo(RNeg(x), 2)>> ELSE <<"+", RoundTo(x, 2)>>

\* AggregateRecord leaving out a trend no month fell into
AggregateRecordsNonEmpty(p, results) ==
    LET Rec(trend) ==
          LET records == results[trend]
          IN  [base_trade_pct |-> p.base_trade_percentage,
               trigger_pct |-> p.trigger_percentage,
               max_trade_usd |-> p.max_trade_usd,
               min_trade_usd |-> p.min_trade_usd,
               multiplier |-> p.multiplier,
               Market_Trend |-> trend,
               Avg_Trading_Profit_USD |->
                   round2(Mean([i \in 1..Len(records) |-> records[i].Profit_Trading_USD])),
               Avg_Hold_Profit_USD |->
                   round2(Mean([i \in 1..Len(records) |-> records[i].Profit_Hold_USD])),
               Total_Months |-> Len(records),
               Avg_Num_Trades |->
                   round2(Mean([i \in 1..Len(records) |-> RInt(records[i].Num_Trades)]))]
        kept == SelectSeq(Trends, LAMBDA t : results[t] # <<>>)
    IN  [i \in 1..Len(kept) |-> Rec(kept[i])]

\* lines 276-305: the records of one combination, one per trend
AggregateRecords(p, results) ==
    LET Rec(trend) ==
          LET records == results[trend]
          IN  [base_trade_pct |-> p.base_trade_percentage,
               trigger_pct |-> p.trigger_percentage,
               max_trade_usd |-> p.max_trade_usd,
               min_trade_usd |-> p.min_trade_usd,
               multiplier |-> p.multiplier,
               Market_Trend |-> trend,
               Avg_Trading_Profit_USD |->
                   IF records # <<>>
                   THEN round2(Mean([i \in 1..Len(records) |-> records[i].Profit_Trading_USD]))
                   ELSE None,
               Avg_Hold_Profit_USD |->
                   IF records # <<>>
                   THEN round2(Mean([i \in 1..Len(records) |-> records[i].Profit_Hold_USD]))
                   ELSE None,
               Total_Months |-> Len(records),
               Avg_Num_Trades |->
                   IF records # <<>>
                   THEN round2(Mean([i \in 1..Len(records) |-> RInt(records[i].Num_Trades)]))
                   ELSE None]
    IN  [i \in 1..3 |-> Rec(Trends[i])]

\* lines 233-253: the next month file; a file that cannot be read or has no
\* monthly_info entry is passed over, otherwise simulate_trading is called
next_month_file ==
    /\ engine = "sampler"
    /\ sampler.status = "done"
    /\ agg.phase = "idle"
    /\ agg.month < MaxMonths
    /\ \E readable \in BOOLEAN, file \in MonthFiles :
          LET info == MonthlyInfo(readable, file) IN
          IF info = NoInfo
          THEN /\ agg' = [agg EXCEPT !.month = @ + 1]
               /\ UNCHANGED <<df, sim>>
          ELSE /\ agg' = [agg EXCEPT !.month = @ + 1, !.file = file,
                                     !.info = info, !.phase = "running"]
               /\ df' = <<>>
               /\ sim' = SimStart(sim)
    /\ UNCHANGED <<usd, price_cache, stamp, sweep, evals, engine, params, cont, live, sampler>>

\* one iteration of simulate_trading's loop over the month's rows
month_row ==
    /\ engine = "sampler"
    /\ agg.phase = "running"
    /\ Len(df) < Len(agg.file)
    /\ df' = Append(df, agg.file[Len(df) + 1])
    /\ sim' = SimRow(sim, agg.file[Len(df) + 1], CurrentParams)
    /\ UNCHANGED <<usd, price_cache, stamp, sweep, evals, engine, params, cont, live, sampler, agg>>

\* lines 253-274: simulate_trading has returned, the month is recorded
record_month ==
    /\ engine = "sampler"
    /\ agg.phase = "running"
    /\ Len(df) = Len(agg.file)
    /\ agg' = [agg EXCEPT
                 !.phase = "idle",
                 !.results_by_trend[agg.info.trend] =
                     Append(@, MonthResult(agg.info, agg.file, sim))]
    /\ UNCHANGED <<usd, price_cache, stamp, sweep, evals, engine, params, df, sim, cont, live, sampler>>

\* lines 276-305: after the last month file the combination is aggregated
aggregate_combo ==
    /\ engine = "sampler"
    /\ sampler.status = "done"
    /\ agg.phase = "idle"
    /\ agg' = [agg EXCEPT
                 !.phase = "done",
                 !.analysis_records = AggregateRecords(CurrentParams, agg.results_by_trend)]
    /\ UNCHANGED <<usd, price_cache, stamp, sweep, evals, engine, params, df, sim, cont, live, sampler>>

simulate_trading ==
    /\ engine = "multibacktest"
    /\ Len(df) < MaxRows
    /\ \E row \in Rows(Prices, P100, P200) :
          /\ df' = Append(df, row)
          /\ sim' = SimRow(sim, row, params)
    /\ UNCHANGED <<usd, price_cache, stamp, sweep, evals, agg, engine, params, cont, live, sampler>>

\* archive/backtest.py: simulate_trading over the module constants; the
\* loop ends when int(row["timestamp_open"]) has raised
archive_simulate_trading ==
    /\ engine = "archive"
    /\ Len(df) < MaxRows
    /\ sim.error = "None"
    /\ \E row \in Rows(ArchivePrices, P100, P103) :
          /\ df' = Append(df, row)
          /\ sim' = ArchiveRow(sim, row)
    /\ UNCHANGED <<usd, price_cache, stamp, sweep, evals, agg, engine, params, cont, live, sampler>>

\* ------------------------------------------------------------------------
\* backtest/02_multibacktest.py: the loop over the sampled combinations,
\* the summary, and backtest/03_final_analysis.py's ranking
\* ------------------------------------------------------------------------
P130 == RInt(130)

\* a month file pd.read_csv cannot read
UnreadableFile == <<"unreadable">>

\* the month files offered to the sweep: a rising month with three
\* triggers, a falling month, a month without monthly_info entry and an
\* unreadable one
SweepFiles ==
    { <<MonthRow(P100), MonthRow(P110), MonthRow(P120), MonthRow(P130)>>,
      <<MonthRow(P100), MonthRow(P90)>>,
      <<MonthRow(Unparseable), MonthRow(P100)>>,
      UnreadableFile }

SweepInit ==
    [phase |-> "idle", month_files |-> <<>>, combo |-> 1, month |-> 1,
     results_by_trend |-> [t \in {"Bullish", "Bearish", "Sideways"} |-> <<>>],
     analysis_records |-> <<>>, df_summary |-> <<>>,
     ranking |-> <<>>]

\* lines 187-214 for one file
SweepInfo(file) == MonthlyInfo(file # UnreadableFile, file)

ComboParams(combo) == Params(combo[1], combo[2], combo[3], combo[4], combo[5])

\* SweepResultsStart keeping the lists of the previous combination
SweepResultsStartCarry(previous) == previous

\* line 231: every combination starts from empty result lists
SweepResultsStart(previous) ==
    [t \in {"Bullish", "Bearish", "Sideways"} |-> <<>>]

\* SweepMonth ending the month loop at a file that cannot be used
SweepMonthAborting(sw, p) ==
    LET file == sw.month_files[sw.month]
        info == SweepInfo(file)
    IN  IF info = NoInfo
        THEN [sw EXCEPT !.month = Len(sw.month_files) + 1]
        ELSE [sw EXCEPT !.month = @ + 1,
                        !.results_by_trend[info.trend] =
                            Append(@, MonthResult(info, file, SimRun(file, p)))]

\* lines 233-274: one iteration of the loop over month_files
SweepMonth(sw, p) ==
    LET file == sw.month_files[sw.month]
        info == SweepInfo(file)
    IN  IF info = NoInfo
        THEN [sw EXCEPT !.month = @ + 1]
        ELSE [sw EXCEPT !.month = @ + 1,
                        !.results_by_trend[info.trend] =
                            Append(@, MonthResult(info, file, SimRun(file, p)))]

\* round(x, 2) as a signed number of hundredths
Cents(v) ==
    IF v[1] = "-" THEN -(v[2][1] * 100 + v[2][2]) ELSE v[2][1] * 100 + v[2][2]

\* line 319: Market_Trend ascending, then Avg_Trading_Profit_USD descending,
\* missing values last
SummaryBefore(a, b) ==
    \/ a.Market_Trend # b.Market_Trend
         /\ ( \/ a.Market_Trend = "Bearish"
              \/ a.Market_Trend = "Bullish" /\ b.Market_Trend = "Sideways" )
    \/ /\ a.Market_Trend = b.Market_Trend
       /\ a.Avg_Trading_Profit_USD # None
       /\ \/ b.Avg_Trading_Profit_USD = None
          \/ Cents(a.Avg_Trading_Profit_USD) > Cents(b.Avg_Trading_Profit_USD)

\* RankBefore in ascending order
RankBeforeAscending(a, b) ==
    /\ a.Profit_Diff # None
    /\ \/ b.Profit_Diff = None
       \/ a.Profit_Diff[1] < b.Profit_Diff[1]

\* 03_final_analysis.py line 29: Profit_Diff descending, missing values last
RankBefore(a, b) ==
    /\ a.Profit_Diff # None
    /\ \/ b.Profit_Diff = None
       \/ a.Profit_Diff[1] > b.Profit_Diff[1]

\* the place of a record in a sorted frame: before the first record it
\* must precede
InsertAt(rec, sorted, Before(_, _)) ==
    LET firsts == {i \in DOMAIN sorted : Before(rec, sorted[i])}
        k == IF firsts = {} THEN Len(sorted) + 1
             ELSE CHOOSE i \in firsts : \A j \in firsts : i <= j
    IN  SubSeq(sorted, 1, k - 1) \o <<rec>> \o SubSeq(sorted, k, Len(sorted))

RECURSIVE SortSummary(_)
SortSummary(records) ==
    IF records = <<>> THEN <<>>
    ELSE InsertAt(Last(records),
                  SortSummary(SubSeq(records, 1, Len(records) - 1)), SummaryBefore)

RECURSIVE SortRanking(_)
SortRanking(records) ==
    IF records = <<>> THEN <<>>
    ELSE InsertAt(Last(records),
                  SortRanking(SubSeq(records, 1, Len(records) - 1)), RankBefore)

\* 03_final_analysis.py line 19; the difference, in hundredths, is kept as
\* <<difference>> and a missing value as None
WithProfitDiff(rec) ==
    [base_trade_pct |-> rec.base_trade_pct,
     trigger_pct |-> rec.trigger_pct,
     max_trade_usd |-> rec.max_trade_usd,
     min_trade_usd |-> rec.min_trade_usd,
     multiplier |-> rec.multiplier,
     Market_Trend |-> rec.Market_Trend,
     Avg_Trading_Profit_USD |-> rec.Avg_Trading_Profit_USD,
     Avg_Hold_Profit_USD |-> rec.Avg_Hold_Profit_USD,
     Total_Months |-> rec.Total_Months,
     Avg_Num_Trades |-> rec.Avg_Num_Trades,
     Profit_Diff |-> IF rec.Avg_Trading_Profit_USD = None
                        \/ rec.Avg_Hold_Profit_USD = None THEN None
                     ELSE <<Cents(rec.Avg_Trading_Profit_USD)
                              - Cents(rec.Avg_Hold_Profit_USD)>>]

\* df.head(3)
Head3(records) == SubSeq(records, 1, IF Len(records) < 3 THEN Len(records) ELSE 3)

\* 03_final_analysis.py lines 7-32: the top three records of every trend
\* of the summary
FinalAnalysis(df_summary) ==
    LET dfd == [i \in DOMAIN df_summary |-> WithProfitDiff(df_summary[i])]
        present == {dfd[i].Market_Trend : i \in DOMAIN dfd}
    IN  [trend \in present |->
            Head3(SortRanking(SelectSeq(dfd, LAMBDA r : r.Market_Trend = trend)))]

\* lines 187-214: the month files of the data folder
list_month_files ==
    /\ engine = "sweep"
    /\ sampler.status = "done"
    /\ sweep.phase = "idle"
    /\ \E n \in 1..MaxMonths : \E files \in [1..n -> SweepFiles] :
          sweep' = [sweep EXCEPT !.phase = "combos", !.month_files = files]
    /\ UNCHANGED <<engine, params, df, sim, cont, live, sampler, agg, evals, stamp, price_cache, usd>>

\* lines 233-274: the current combination over the next month file
sweep_month ==
    /\ engine = "sweep"
    /\ sweep.phase = "combos"
    /\ sweep.combo <= Len(sampled_param_combos)
    /\ sweep.month <= Len(sweep.month_files)
    /\ sweep' = SweepMonth(sweep, ComboParams(sampled_param_combos[sweep.combo]))
    /\ UNCHANGED <<engine, params, df, sim, cont, live, sampler, agg, evals, stamp, price_cache, usd>>

\* lines 276-305, then the next iteration of the combination loop
sweep_combo ==
    /\ engine = "sweep"
    /\ sweep.phase = "combos"
    /\ sweep.combo <= Len(sampled_param_combos)
    /\ sweep.month > Len(sweep.month_files)
    /\ sweep' = [sweep EXCEPT
                   !.analysis_records =
                       @ \o AggregateRecords(ComboParams(sampled_param_combos[sweep.combo]),
                                             sweep.results_by_trend),
                   !.combo = @ + 1,
                   !.month = 1,
                   !.results_by_trend = SweepResultsStart(@)]
    /\ UNCHANGED <<engine, params, df, sim, cont, live, sampler, agg, evals, stamp, price_cache, usd>>

\* lines 318-323: the summary is sorted and saved
save_summary ==
    /\ engine = "sweep"
    /\ sweep.phase = "combos"
    /\ sweep.combo > Len(sampled_param_combos)
    /\ sweep' = [sweep EXCEPT !.phase = "summary",
                              !.df_summary = SortSummary(sweep.analysis_records)]
    /\ UNCHANGED <<engine, params, df, sim, cont, live, sampler, agg, evals, stamp, price_cache, usd>>

\* 03_final_analysis.py over the saved summary
final_analysis ==
    /\ engine = "sweep"
    /\ sweep.phase = "summary"
    /\ sweep' = [sweep EXCEPT !.phase = "ranked",
                              !.ranking = FinalAnalysis(sweep.df_summary)]
    /\ UNCHANGED <<engine, params, df, sim, cont, live, sampler, agg, evals, stamp, price_cache, usd>>

\* ------------------------------------------------------------------------
\* two calls of simulate_trading in progress at once, each with its own
\* locals; their loop iterations are taken in any order
\* ------------------------------------------------------------------------
MaxEvalRows == 2

EvalRows ==
    [close_price : {P50, P100, P200}, timestamp_open : {"ok"}]
        \cup {[close_price |-> P100, timestamp_open |-> "out_of_range"]}

EvalParamPairs ==
    { <<Params(Rat(1, 5), Rat(1, 2), RInt(750), RInt(0), RInt(1)),
        Params(RInt(1), Rat(1, 2), RInt(5000), RInt(10), RInt(2))>>,
      <<Params(Rat(3, 4), Rat(1, 2), RInt(5000), RInt(15), Rat(3, 2)),
        Params(Rat(1, 5), Rat(1, 2), RInt(750), RInt(300), RInt(2))>> }

\* lines 54-73: the arguments and locals of one call
EvalFrame(p) == [params |-> p, df |-> <<>>, s |-> SimInit]

\* EvalStep reading last_action and the consecutive count of the other call
EvalStepShared(frames, i, row) ==
    LET other == frames[3 - i].s
        seen  == [frames[i].s EXCEPT !.last_action = other.last_action,
                                     !.consecutive_count = other.consecutive_count]
    IN  [frames EXCEPT ![i].df = Append(@, row),
                       ![i].s = SimRow(seen, row, frames[i].params)]

\* lines 75-183: one loop iteration of call i on its own locals
EvalStep(frames, i, row) ==
    [frames EXCEPT ![i].df = Append(@, row),
                   ![i].s = SimRow(@, row, frames[i].params)]

simulate_trading_call ==
    /\ engine = "two_calls"
    /\ \E i \in 1..2 :
          /\ Len(evals[i].df) < MaxEvalRows
          /\ \E row \in EvalRows : evals' = EvalStep(evals, i, row)
    /\ UNCHANGED <<engine, params, df, sim, cont, live, sampler, agg, sweep, stamp, price_cache, usd>>

\* ---- timestamp conversion of one row (02_multibacktest.py l.81-98, the
\* ---- same statements in 06_cc_output_enabled.py l.125-145) ----
\* ts_number is kept as the decimal digits str(ts_number) prints, most
\* significant first: len(ts_str) is the length of the sequence, and the
\* values (up to 4102444800 * 10^6) stay exact. The quotients ts_number / 1e3
\* and ts_number / 1e6 are kept as <<integer digits, fractional digits>>;
\* the float quotient compares with the two integer limits as the exact
\* quotient does, the grid of doubles below 2^32 being finer than 1e-6.
Zeros(n) == [i \in 1..n |-> 0]

\* a < b for two integers written without leading zeros
DigitsLt(a, b) ==
    \/ Len(a) < Len(b)
    \/ /\ Len(a) = Len(b)
       /\ \E i \in 1..Len(a) : a[i] < b[i] /\ \A j \in 1..(i - 1) : a[j] = b[j]

\* ts_number / 10^k
DivPow10(digits, k) ==
    IF Len(digits) <= k
    THEN <<<<0>>, Zeros(k - Len(digits)) \o digits>>
    ELSE <<SubSeq(digits, 1, Len(digits) - k), SubSeq(digits, Len(digits) - k + 1, Len(digits))>>

\* lines 86-91: the unit is taken from the number of digits alone
Seconds(ts_number) ==
    IF Len(ts_number) >= 16 THEN DivPow10(ts_number, 6)
    ELSE IF Len(ts_number) >= 13 THEN DivPow10(ts_number, 3)
    ELSE <<ts_number, <<>>>>

MinSeconds == <<9, 4, 6, 6, 8, 4, 8, 0, 0>>
MaxSeconds == <<4, 1, 0, 2, 4, 4, 4, 8, 0, 0>>

\* line 93, negated: 946684800 <= seconds <= 4102444800
SecondsInRange(seconds) ==
    /\ ~DigitsLt(seconds[1], MinSeconds)
    /\ ~DigitsLt(MaxSeconds, seconds[1])
    /\ seconds[1] = MaxSeconds => \A i \in 1..Len(seconds[2]) : seconds[2][i] = 0

\* the instants (whole epoch seconds) and the units a timestamp cell is
\* written in: ts_number = instant * 1, * 10^3 or * 10^6
TimestampInstants ==
    { <<9, 4, 6, 6, 8, 5>>,
      <<9, 4, 6, 6, 8, 4, 7, 9, 9>>,
      <<9, 4, 6, 6, 8, 4, 8, 0, 0>>,
      <<9, 9, 9, 9, 9, 9, 9, 9, 9>>,
      <<1, 0, 0, 0, 0, 0, 0, 0, 0, 0>>,
      <<1, 6, 7, 2, 5, 3, 1, 2, 0, 0>>,
      <<4, 1, 0, 2, 4, 4, 4, 8, 0, 0>>,
      <<4, 1, 0, 2, 4, 4, 4, 8, 0, 1>> }

TimestampUnits == {"s", "ms", "us"}

UnitDigits(unit) == IF unit = "us" THEN 6 ELSE IF unit = "ms" THEN 3 ELSE 0

NoStamp == [instant |-> <<>>, unit |-> "none", ts_number |-> <<>>, status |-> "none", seconds |-> <<<<>>, <<>>>>]

Stamp(instant, unit) == [instant |-> instant, unit |-> unit, ts_number |-> instant \o Zeros(UnitDigits(unit)), status |-> "raw", seconds |-> <<<<>>, <<>>>>]

\* lines 81-98 on one cell: the row goes on to the trading step ("accepted")
\* or the ValueError of line 94 is caught and the row is skipped
timestamp_conversion ==
    /\ engine = "timestamp"
    /\ stamp.status = "raw"
    /\ LET seconds == Seconds(stamp.ts_number)
       IN  stamp' = [stamp EXCEPT !.seconds = seconds,
                                  !.status = IF SecondsInRange(seconds) THEN "accepted" ELSE "skipped"]
    /\ UNCHANGED <<usd, price_cache, sweep, evals, agg, engine, params, df, sim, cont, live, sampler>>

\* ------------------------------------------------------------------------
\* main.py: PriceCache
\* ------------------------------------------------------------------------
\* operations on one cache object
MaxCacheCalls == 3

CacheSymbols == {"BTCUSDT", "ETHUSDT"}
CachePrices == {P100, P200}
\* seconds time.time() has moved on since the previous operation
ClockSteps == {20, 60}

\* __init__: an empty dict (no entry is <<>>) and the default ttl_seconds
\* of 60; now, calls and last record the clock, the operations made and the
\* answer of the last one
PriceCacheInit ==
    [cache |-> [symbol \in CacheSymbols |-> None], ttl |-> 60,
     now |-> 0, calls |-> <<>>, last |-> [op |-> "none"]]

\* get_price counting an entry of exactly ttl seconds as fresh
PriceCache_get_price_inclusive(self, symbol, now) ==
    IF self.cache[symbol] # None /\ now - self.cache[symbol][2] <= self.ttl
    THEN <<self.cache[symbol][1]>>
    ELSE None

\* lines 36-42: the price as <<price>>, or None
PriceCache_get_price(self, symbol, now) ==
    IF self.cache[symbol] # None /\ now - self.cache[symbol][2] < self.ttl
    THEN <<self.cache[symbol][1]>>
    ELSE None

\* set_price emptying the dict before it stores the entry
PriceCache_set_price_alone(self, symbol, price, now) ==
    [s \in CacheSymbols |-> IF s = symbol THEN <<price, now>> ELSE None]

\* lines 44-45: the dict after self.cache[symbol] = (price, time.time())
PriceCache_set_price(self, symbol, price, now) ==
    [self.cache EXCEPT ![symbol] = <<price, now>>]

cache_get_price ==
    /\ engine = "price_cache"
    /\ Len(price_cache.calls) < MaxCacheCalls
    /\ \E symbol \in CacheSymbols, dt \in ClockSteps :
          LET now == price_cache.now + dt
              result == PriceCache_get_price(price_cache, symbol, now)
          IN  price_cache' =
                 [price_cache EXCEPT
                    !.now = now,
                    !.calls = Append(@, [op |-> "get", symbol |-> symbol, time |-> now]),
                    !.last = [op |-> "get", symbol |-> symbol, result |-> result]]
    /\ UNCHANGED <<usd, stamp, sweep, evals, agg, engine, params, df, sim, cont, live, sampler>>

cache_set_price ==
    /\ engine = "price_cache"
    /\ Len(price_cache.calls) < MaxCacheCalls
    /\ \E symbol \in CacheSymbols, price \in CachePrices, dt \in ClockSteps :
          LET now == price_cache.now + dt
          IN  price_cache' =
                 [price_cache EXCEPT
                    !.now = now,
                    !.cache = PriceCache_set_price(price_cache, symbol, price, now),
                    !.calls = Append(@, [op |-> "set", symbol |-> symbol,
                                         price |-> price, time |-> now]),
                    !.last = [op |-> "set", symbol |-> symbol]]
    /\ UNCHANGED <<usd, stamp, sweep, evals, agg, engine, params, df, sim, cont, live, sampler>>

\* ------------------------------------------------------------------------
\* main.py: get_usd_price, the recursion as a stack of calls
\* ------------------------------------------------------------------------
USD_STABLECOINS == <<"USDT", "USDC", "BUSD", "FDUSD">>

\* assets get_usd_price is asked for
UsdAssets == {"XYZ", "BTC", "ETH", "USDT"}
\* what a ticker that answers quotes
TickerPrices == {Zero, RInt(2)}

\* one call: its arguments asset, depth and visited, where it stands (pc),
\* the position of the stablecoin loop and the price its recursive call
\* returned
UsdFrame(asset, depth, visited) ==
    [asset |-> asset, depth |-> depth, visited |-> visited,
     pc |-> "enter", stablecoin |-> 1, via_price |-> Zero]

\* the state before the outermost call; cache holds the "<asset>_USD"
\* entries of price_cache, found tells whether a ticker, the cache or the
\* stablecoin rule has yielded a price
UsdInit(asset, cache) ==
    [stack |-> <<UsdFrame(asset, 0, {})>>, status |-> "running",
     result |-> None, cache |-> cache, found |-> FALSE]

NoUsd == [stack |-> <<>>, status |-> "none", result |-> None,
          cache |-> [a \in UsdAssets |-> None], found |-> FALSE]

\* return value: the frame is popped and the caller, if any, receives value
UsdReturn(u, value) ==
    IF Len(u.stack) = 1
    THEN [u EXCEPT !.stack = <<>>, !.status = "returned", !.result = <<value>>]
    ELSE LET n == Len(u.stack) IN
         [u EXCEPT !.stack = [SubSeq(u.stack, 1, n - 1) EXCEPT ![n - 1].via_price = value]]

UsdGoto(u, pc) == [u EXCEPT !.stack[Len(u.stack)].pc = pc]

\* lines 115-117: the call is refused
UsdRefused(f) == f.depth > 3 \/ f.asset \in f.visited

\* lines 142 and 155 without the test on visited
UsdMayRecurseAlways(f, via) == f.asset # via

\* lines 142 and 155: the fallback through via is tried
UsdMayRecurse(f, via) == f.asset # via /\ via \notin f.visited

\* lines 111-128: refusal, visited.add, the cache and the stablecoin rule; a
\* cache entry that is present is fresh or has expired
UsdEnter(u, f) ==
    IF UsdRefused(f) THEN {UsdReturn(u, Zero)}
    ELSE LET v == [u EXCEPT !.stack[Len(u.stack)].visited = @ \cup {f.asset}]
             miss == IF \E i \in 1..Len(USD_STABLECOINS) : USD_STABLECOINS[i] = f.asset
                     THEN UsdReturn([v EXCEPT !.cache[f.asset] = RInt(1), !.found = TRUE], RInt(1))
                     ELSE UsdGoto(v, "direct")
         IN  IF u.cache[f.asset] # None
             THEN {UsdReturn([v EXCEPT !.found = TRUE], u.cache[f.asset]), miss}
             ELSE {miss}

\* lines 131-139: one turn of the loop over USD_STABLECOINS; the ticker
\* lookup raises, or answers a price that is cached and returned
UsdDirect(u, f) ==
    {IF f.stablecoin = Len(USD_STABLECOINS) THEN UsdGoto(u, "via_BTC")
     ELSE [u EXCEPT !.stack[Len(u.stack)].stablecoin = @ + 1]}
    \cup {UsdReturn([u EXCEPT !.cache[f.asset] = price, !.found = TRUE], price) :
             price \in TickerPrices}

\* lines 142-144 and 155-157: the recursive call with depth + 1 and a copy
\* of visited
UsdVia(u, f, via, after, next) ==
    IF UsdMayRecurse(f, via)
    THEN {[u EXCEPT !.stack = Append([u.stack EXCEPT ![Len(u.stack)].pc = after],
                                     UsdFrame(via, f.depth + 1, f.visited))]}
    ELSE {UsdGoto(u, next)}

\* lines 145-152 and 158-165: the cross ticker, looked up only for a
\* positive price of via; it raises or its product is cached and returned
UsdAfter(u, f, next) ==
    IF RGt(f.via_price, Zero)
    THEN {UsdGoto(u, next)}
         \cup {UsdReturn([u EXCEPT !.cache[f.asset] = RMul(price, f.via_price),
                                   !.found = TRUE],
                         RMul(price, f.via_price)) : price \in TickerPrices}
    ELSE {UsdGoto(u, next)}

\* the successors of the call on top of the stack
UsdStep(u) ==
    LET f == Last(u.stack) IN
    IF f.pc = "enter" THEN UsdEnter(u, f)
    ELSE IF f.pc = "direct" THEN UsdDirect(u, f)
    ELSE IF f.pc = "via_BTC" THEN UsdVia(u, f, "BTC", "after_BTC", "via_ETH")
    ELSE IF f.pc = "after_BTC" THEN UsdAfter(u, f, "via_ETH")
    ELSE IF f.pc = "via_ETH" THEN UsdVia(u, f, "ETH", "after_ETH", "fail")
    ELSE IF f.pc = "after_ETH" THEN UsdAfter(u, f, "fail")
    ELSE {UsdReturn(u, Zero)}

\* cap on the calls open at once
MaxUsdCalls == 6

get_usd_price ==
    /\ engine = "usd_price"
    /\ usd.status = "running"
    /\ Len(usd.stack) <= MaxUsdCalls
    /\ \E v \in UsdStep(usd) : usd' = v
    /\ UNCHANGED <<price_cache, stamp, sweep, evals, agg, engine, params, df, sim, cont, live, sampler>>

NoParams == [none |-> TRUE]

Init ==
    /\ df = <<>>
    /\ agg = AggInit
    /\ cont = CCInit
    /\ sweep = SweepInit
    /\ \/ /\ engine = "multibacktest"
          /\ params \in ParamCombos
          /\ live = LiveInit
          /\ sampler = SamplerInit
       \/ /\ engine = "archive"
          /\ params = ArchiveParams
          /\ live = LiveInit
          /\ sampler = SamplerInit
       \/ /\ engine = "cc_output"
          /\ params \in CCParamCombos
          /\ live = LiveInit
          /\ sampler = SamplerInit
       \/ /\ engine = "e2e"
          /\ params \in E2EParamCombos
          /\ live = LiveInit
          /\ sampler = SamplerInit
       \/ /\ engine = "live"
          /\ params \in PairConfigs
          /\ live \in {[LiveInit EXCEPT !.PRODUCTION = b] : b \in BOOLEAN}
          /\ sampler = SamplerInit
       \/ /\ engine = "sampler"
          /\ params = NoParams
          /\ live = LiveInit
          /\ sampler \in {[SamplerInit EXCEPT !.NUM_COMBOS = k] : k \in 1..MaxCombos}
       \/ /\ engine = "sweep"
          /\ params = NoParams
          /\ live = LiveInit
          /\ sampler \in {[SamplerInit EXCEPT !.NUM_COMBOS = k] : k \in 1..MaxCombos}
       \/ /\ engine = "two_calls"
          /\ params = NoParams
          /\ live = LiveInit
          /\ sampler = SamplerInit
       \/ /\ engine = "timestamp"
          /\ params = NoParams
          /\ live = LiveInit
          /\ sampler = SamplerInit
       \/ /\ engine = "price_cache"
          /\ params = NoParams
          /\ live = LiveInit
          /\ sampler = SamplerInit
       \/ /\ engine = "usd_price"
          /\ params = NoParams
          /\ live = LiveInit
          /\ sampler = SamplerInit
    /\ sim = IF engine = "e2e" THEN E2EInit ELSE SimInit
    /\ evals \in IF engine = "two_calls"
                 THEN {<<EvalFrame(pp[1]), EvalFrame(pp[2])>> : pp \in EvalParamPairs}
                 ELSE {<<>>}
    /\ stamp \in IF engine = "timestamp"
                 THEN {Stamp(instant, unit) : instant \in TimestampInstants, unit \in TimestampUnits}
                 ELSE {NoStamp}
    /\ price_cache = PriceCacheInit
    /\ usd \in IF engine = "usd_price"
               THEN {UsdInit(asset, cache) :
                        asset \in UsdAssets,
                        cache \in {NoUsd.cache, [NoUsd.cache EXCEPT !["BTC"] = RInt(2)]}}
               ELSE {NoUsd}

Next ==
    \/ simulate_trading
    \/ archive_simulate_trading
    \/ read_next_file
    \/ simulate_trading_across_all_files
    \/ E2E_read_next_file
    \/ E2E_simulate_trading_across_all_files
    \/ process_trading_pair
    \/ random_sample
    \/ next_month_file
    \/ month_row
    \/ record_month
    \/ aggregate_combo
    \/ list_month_files
    \/ sweep_month
    \/ sweep_combo
    \/ save_summary
    \/ final_analysis
    \/ simulate_trading_call
    \/ timestamp_conversion
    \/ cache_get_price
    \/ cache_set_price
    \/ get_usd_price

Spec == Init /\ [][Next]_vars

\* one outermost call of get_usd_price on its own, the interpreter running
\* the calls on the stack as long as one is open
UsdPriceInit == Init /\ engine = "usd_price"

UsdPriceSpec == UsdPriceInit /\ [][get_usd_price]_vars /\ WF_vars(get_usd_price)

\* one call of simulate_trading of backtest/02_multibacktest.py on its own:
\* the for loop of line 75 takes the next row as long as one is left
RunInit == Init /\ engine = "multibacktest"

RunSpec == RunInit /\ [][simulate_trading]_vars /\ WF_vars(simulate_trading)

\* ------------------------------------------------------------------------
\* Properties
\* ------------------------------------------------------------------------
One == RInt(1)

ValidRow(row) ==
    row.close_price # Unparseable /\ TimestampOk(row.timestamp_open)

\* the prices of the samples the engine has consumed, in order
ValidPrices(rows) ==
    LET v == SelectSeq(rows, ValidRow) IN [i \in 1..Len(v) |-> v[i].close_price]

DecLe(a, b) == a[1] < b[1] \/ (a[1] = b[1] /\ a[2] <= b[2])
DecLt(a, b) == a[1] < b[1] \/ (a[1] = b[1] /\ a[2] < b[2])

UsdEngine == engine \in {"multibacktest", "archive"}

\* the row reaches the trading logic of the running engine
Consumed(row) ==
    /\ row.close_price # Unparseable
    /\ IF engine = "archive" THEN row.timestamp_open # "unparseable"
       ELSE TimestampOk(row.timestamp_open)

\* the effective fraction a TradeRecord of the running engine reports
Fraction(entry) ==
    IF engine = "archive" THEN entry.Actual_Trade_Percentage
    ELSE entry.Effective_Trade_Pct

EngineParams == IF engine = "archive" THEN ArchiveParams ELSE params

\* C1: in both backtest engines the base-asset balance and the quote-asset
\* balance are >= 0 after every sample, for every parameter combination
BalanceNonNegative ==
    /\ RGe(sim.eth_balance, Zero)
    /\ RGe(sim.usdc_balance, Zero)
    /\ RGe(cont.base_balance, Zero)
    /\ RGe(cont.quote_balance, Zero)

\* a trade with an effective fraction above 1 has emptied the selling side
ClampedToBalance ==
    /\ engine = "multibacktest"
    /\ Len(sim.trade_logs) >= 2
    /\ DecLt(<<1, 0>>, Last(sim.trade_logs).Effective_Trade_Pct)
    /\ \/ Last(sim.trade_logs).Action = "SELL" /\ sim.eth_balance = Zero
       \/ Last(sim.trade_logs).Action = "BUY" /\ sim.usdc_balance = Zero

\* C2: for every executed SELL of quantity q at price p in simulate_trading,
\* quote_after - quote_before = q * p and base_after = base_before - q,
\* q being the quantity the TradeRecord reports (to 8 decimals)
SellConservation ==
    [][ ( /\ UsdEngine
          /\ Len(sim'.trade_logs) = Len(sim.trade_logs) + 1
          /\ Last(sim'.trade_logs).Action = "SELL" )
        => LET p == Last(df').close_price
               q == RSub(sim.eth_balance, sim'.eth_balance)
           IN  /\ RGe(q, Zero)
               /\ Last(sim'.trade_logs).Quantity = round8(q)
               /\ RSub(sim'.usdc_balance, sim.usdc_balance) = RMul(q, p) ]_vars

\* a SELL whose quantity was clamped to the whole base balance
SellClamped ==
    /\ UsdEngine
    /\ Len(sim.trade_logs) >= 1
    /\ Last(sim.trade_logs).Action = "SELL"
    /\ sim.eth_balance = Zero
    /\ RGt(sim.usdc_balance, RInt(500))

PortfolioValue(base, quote, p) == RAdd(RMul(base, p), quote)

\* C3: every executed trade leaves base * p + quote unchanged at the trade
\* price p, in the backtest engines and in calculate_new_balances; a BUY
\* spends exactly the base quantity gained times p
ValueConservation ==
    [][ /\ ( UsdEngine /\ Len(sim'.trade_logs) = Len(sim.trade_logs) + 1 )
           => LET p == Last(df').close_price
              IN  /\ PortfolioValue(sim'.eth_balance, sim'.usdc_balance, p)
                       = PortfolioValue(sim.eth_balance, sim.usdc_balance, p)
                  /\ Last(sim'.trade_logs).Action = "BUY"
                       => RSub(sim.usdc_balance, sim'.usdc_balance)
                            = RMul(RSub(sim'.eth_balance, sim.eth_balance), p)
        /\ ( engine = "cc_output" /\ cont'.trade_count = cont.trade_count + 1 )
           => LET p == Last(df').close_price
              IN  PortfolioValue(cont'.base_balance, cont'.quote_balance, p)
                    = PortfolioValue(cont.base_balance, cont.quote_balance, p)
        /\ ( engine = "live" /\ Len(live'.notifications) = Len(live.notifications) + 1 )
           => LET t == Last(live'.notifications)
              IN  /\ PortfolioValue(t.new_base_balance, t.new_quote_balance, t.price)
                       = PortfolioValue(t.base_balance, t.quote_balance, t.price)
                  /\ t.action = "BUY"
                       => RSub(t.quote_balance, t.new_quote_balance)
                            = RMul(RSub(t.new_base_balance, t.base_balance), t.price)
      ]_vars

\* the live trader has computed the balances of a BUY of a positive quantity
LiveBuyComputed ==
    /\ engine = "live"
    /\ Len(live.notifications) >= 1
    /\ Last(live.notifications).action = "BUY"
    /\ RGt(Last(live.notifications).qty, Zero)

Sample(price) == [close_price |-> price, timestamp_open |-> "ok"]

E2ESeries == <<Sample(P100), Sample(P100), Sample(P103), Sample(P10094)>>

E2ESell ==
    [ID |-> 1, Action |-> "SELL", Price |-> <<103, 0>>,
     Quantity |-> round8(Rat(50, 103)),
     ETH_Balance |-> round8(Rat(465, 103)),
     USDC_Balance |-> <<550, 0>>,
     ETH_USD_Price |-> <<103, 0>>,
     USDC_USD_Price |-> <<1, 0>>,
     ETH_USD_Value |-> <<465, 0>>,
     USDC_USD_Value |-> <<550, 0>>,
     Trade_USD_Value |-> <<50, 0>>,
     Total_Balance_USD |-> <<1015, 0>>,
     Consecutive_Count |-> 0,
     Actual_Trade_Percentage |-> <<0, 20000000>>]

\* C4: archive/backtest.py replaying [100, 100, 103, 100.94]: 5 base and 500
\* quote after the first sample, one SELL at 103 capped to 50 (quantity
\* 50/103, fraction 0.2), then base 5 - 50/103, quote 550, reference 103,
\* and no trade on the last sample
EndToEndScenario ==
    engine = "archive" =>
      /\ (Len(df) \in 1..2 /\ df = SubSeq(E2ESeries, 1, Len(df)))
           => /\ sim.eth_balance = RInt(5)
              /\ sim.usdc_balance = RInt(500)
              /\ sim.base_price = P100
              /\ sim.trade_logs = <<>>
      /\ (Len(df) \in 3..4 /\ df = SubSeq(E2ESeries, 1, Len(df)))
           => /\ sim.trade_logs = <<E2ESell>>
              /\ sim.eth_balance = RSub(RInt(5), Rat(50, 103))
              /\ sim.usdc_balance = RInt(550)
              /\ sim.base_price = P103
              /\ sim.last_action = "SELL"
              /\ sim.consecutive_count = 0

EndToEndReplayed == engine = "archive" /\ df = E2ESeries

\* C5: no parameter combination (compared by its five values) appears twice
\* in sampled_param_combos
NoDuplicateCombos ==
    \A i, j \in DOMAIN sampled_param_combos :
        i # j => sampled_param_combos[i] # sampled_param_combos[j]

\* the candidate action of a sample against a reference price
Candidate(price, base_price, trigger) ==
    LET price_change == RDiv(RSub(price, base_price), base_price)
    IN  IF RGe(price_change, trigger) THEN "SELL"
        ELSE IF RLe(price_change, RNeg(trigger)) THEN "BUY"
        ELSE "None"

\* a valid sample past the initial split was consumed by this step
SimSample == UsdEngine /\ df' # df /\ Consumed(Last(df')) /\ sim.base_price # None
CCSample == engine = "cc_output" /\ df' # df /\ ValidRow(Last(df'))
               /\ cont.base_price # None

CountRule(last_action, cand, count) == IF cand = last_action THEN count + 1 ELSE 0

SimPotential(s, price, p, cand) ==
    LET eff == RMul(p.base_trade_percentage,
                    RPow(p.multiplier, CountRule(s.last_action, cand, s.consecutive_count)))
    IN  IF cand = "SELL" THEN RMul(RMul(s.eth_balance, price), eff)
        ELSE RMul(s.usdc_balance, eff)

CCGated(s, price, p, cand) ==
    LET eff == RMul(p.base_trade_percentage,
                    RPow(p.multiplier, CountRule(s.last_action, cand, s.consecutive_count)))
        total == RAdd(s.base_balance, RDiv(s.quote_balance, price))
    IN  IF cand = "SELL"
        THEN RLt(RMul(s.base_balance, eff), RMul(total, p.min_trade_percentage))
        ELSE RLt(RMul(s.quote_balance, eff),
                 RMul(RMul(total, p.min_trade_percentage), price))

\* C6: a triggering sample whose potential value is below the minimum trade
\* size records no trade and leaves both balances unchanged, while the
\* reference price becomes the current price, last_action the candidate
\* action and the consecutive count the incremented or reset count
MinimumSizeGate ==
    [][ /\ SimSample =>
            LET price == Last(df').close_price
                cand == Candidate(price, sim.base_price, EngineParams.trigger_percentage)
            IN  ( /\ cand # "None"
                  /\ RLt(SimPotential(sim, price, EngineParams, cand),
                         EngineParams.min_trade_usd) )
                => /\ sim'.trade_logs = sim.trade_logs
                   /\ sim'.eth_balance = sim.eth_balance
                   /\ sim'.usdc_balance = sim.usdc_balance
                   /\ sim'.base_price = price
                   /\ sim'.last_action = cand
                   /\ sim'.consecutive_count
                        = CountRule(sim.last_action, cand, sim.consecutive_count)
        /\ CCSample =>
            LET price == Last(df').close_price
                cand == Candidate(price, cont.base_price, params.trigger_percentage)
            IN  ( cand # "None" /\ CCGated(cont, price, params, cand) )
                => /\ cont'.trades_log = cont.trades_log
                   /\ cont'.base_balance = cont.base_balance
                   /\ cont'.quote_balance = cont.quote_balance
                   /\ cont'.base_price = price
                   /\ cont'.last_action = cand
                   /\ cont'.consecutive_count
                        = CountRule(cont.last_action, cand, cont.consecutive_count)
      ]_vars

\* the gate has blocked a same-direction candidate: nothing traded, the
\* count was incremented
GateBlocked ==
    /\ engine = "multibacktest"
    /\ sim.trade_logs = <<>>
    /\ sim.last_action # "None"
    /\ sim.consecutive_count >= 1
    /\ sim.base_price = Last(df).close_price

\* C7: a sample whose price change is strictly inside the trigger band
\* changes neither the reference price, last_action, the consecutive count,
\* the balances nor the trade log
InsideBandNoChange ==
    [][ /\ ( SimSample /\ Candidate(Last(df').close_price, sim.base_price,
                                    EngineParams.trigger_percentage) = "None" )
           => sim' = sim
        /\ ( CCSample /\ Candidate(Last(df').close_price, cont.base_price,
                                   params.trigger_percentage) = "None" )
           => /\ cont'.base_price = cont.base_price
              /\ cont'.last_action = cont.last_action
              /\ cont'.consecutive_count = cont.consecutive_count
              /\ cont'.base_balance = cont.base_balance
              /\ cont'.quote_balance = cont.quote_balance
              /\ cont'.trades_log = cont.trades_log
      ]_vars

\* the last sample moved the price but stayed inside the band
InsideBandSample ==
    /\ engine = "multibacktest"
    /\ Len(df) >= 2
    /\ ValidRow(Last(df))
    /\ sim.base_price # None
    /\ sim.base_price # Last(df).close_price
    /\ Candidate(Last(df).close_price, sim.base_price, params.trigger_percentage) = "None"

FlatSeries(rows) ==
    \A i, j \in DOMAIN ValidPrices(rows) : ValidPrices(rows)[i] = ValidPrices(rows)[j]

\* C8: replaying a constant-price series records no trade and leaves the
\* balances at the initial 50/50 split
FlatSeriesNoTrade ==
    ( engine = "multibacktest" /\ FlatSeries(df) )
    => /\ sim.trade_logs = <<>>
       /\ sim.base_price # None
            => /\ sim.usdc_balance = RDiv(INITIAL_USDC_BALANCE, RInt(2))
               /\ sim.eth_balance
                    = RDiv(RDiv(INITIAL_USDC_BALANCE, RInt(2)), sim.base_price)

FlatSeriesReplayed ==
    /\ engine = "multibacktest"
    /\ Len(ValidPrices(df)) >= 3
    /\ FlatSeries(df)

\* C9: every triggering sample sets the consecutive count to old count + 1
\* if the candidate equals last_action and to 0 otherwise, inside-band
\* samples leave it alone, and every TradeRecord's effective fraction is
\* base_trade_fraction * size_multiplier ^ (its consecutive count), reported
\* to 8 decimals
ConsecutiveDirectionRule ==
    [][ UsdEngine =>
        /\ SimSample =>
             LET cand == Candidate(Last(df').close_price, sim.base_price,
                                   EngineParams.trigger_percentage)
             IN  sim'.consecutive_count =
                    IF cand = "None" THEN sim.consecutive_count
                    ELSE IF cand = sim.last_action THEN sim.consecutive_count + 1
                    ELSE 0
        /\ \A i \in DOMAIN sim'.trade_logs :
             Fraction(sim'.trade_logs[i]) =
                round8(RMul(EngineParams.base_trade_percentage,
                            RPow(EngineParams.multiplier,
                                 sim'.trade_logs[i].Consecutive_Count)))
      ]_vars

\* two trades in a row in the same direction, then one in the other
CountIncrementedAndReset ==
    /\ engine = "multibacktest"
    /\ Len(sim.trade_logs) = 3
    /\ sim.trade_logs[2].Consecutive_Count = 1
    /\ sim.trade_logs[2].Effective_Trade_Pct # sim.trade_logs[1].Effective_Trade_Pct
    /\ sim.trade_logs[3].Consecutive_Count = 0

StrictlyMonotonic(ps) ==
    \/ \A i \in 1..(Len(ps) - 1) : RLt(ps[i], ps[i + 1])
    \/ \A i \in 1..(Len(ps) - 1) : RGt(ps[i], ps[i + 1])

\* C10: on a strictly monotonic price series with size_multiplier > 1 the
\* effective trade fractions of consecutive TradeRecords are non-decreasing
MultiplierMonotonicity ==
    ( /\ engine = "multibacktest"
      /\ RGt(params.multiplier, One)
      /\ StrictlyMonotonic(ValidPrices(df)) )
    => \A i \in 1..(Len(sim.trade_logs) - 1) :
          DecLe(sim.trade_logs[i].Effective_Trade_Pct,
                sim.trade_logs[i + 1].Effective_Trade_Pct)

MonotonicSeriesTraded ==
    /\ engine = "multibacktest"
    /\ RGt(params.multiplier, One)
    /\ StrictlyMonotonic(ValidPrices(df))
    /\ Len(sim.trade_logs) >= 2
    /\ DecLt(sim.trade_logs[1].Effective_Trade_Pct, sim.trade_logs[2].Effective_Trade_Pct)

\* C11: with max_trade_usd = 0 a trade that passes the minimum-size gate
\* executes with value potential_usd, clamped only to the balance held, as
\* calculate_trade_amounts does for max_amount = 0
ZeroCapMeansNoCap ==
    [][ /\ ( /\ engine = "multibacktest"
             /\ params.max_trade_usd = Zero
             /\ Len(sim'.trade_logs) = Len(sim.trade_logs) + 1 )
           => LET price == Last(df').close_price
                  cand  == Last(sim'.trade_logs).Action
                  potential_value == SimPotential(sim, price, params, cand)
              IN  IF cand = "SELL"
                  THEN RSub(sim'.usdc_balance, sim.usdc_balance)
                         = RMin(potential_value, RMul(sim.eth_balance, price))
                  ELSE RSub(sim.usdc_balance, sim'.usdc_balance)
                         = RMin(potential_value, sim.usdc_balance)
        /\ ( /\ engine = "live"
             /\ params.max_amount = Zero
             /\ Len(live'.notifications) = Len(live.notifications) + 1 )
           => LET t == Last(live'.notifications)
              IN  IF t.action = "SELL"
                  THEN t.qty = RMul(t.base_balance, t.actual_trade_percentage)
                  ELSE RMul(t.qty, t.price)
                         = RMul(t.quote_balance, t.actual_trade_percentage)
      ]_vars

\* C12: the first valid sample of a run sets the reference price to its
\* price, leaves initial/2 as quote, converts the other half to base at
\* that price and records no trade; once a valid sample has been consumed
\* the reference price is never unset
InitialSplitRule ==
    [][ engine = "multibacktest" =>
        /\ ( df' # df /\ ValidRow(Last(df')) /\ sim.base_price = None )
           => LET price == Last(df').close_price
                  half  == RDiv(INITIAL_USDC_BALANCE, RInt(2))
              IN  /\ ValidPrices(df) = <<>>
                  /\ sim'.base_price = price
                  /\ sim'.usdc_balance = half
                  /\ sim'.eth_balance = RDiv(half, price)
                  /\ sim'.trade_logs = <<>>
                  /\ sim'.trade_id = 1
                  /\ sim'.last_action = "None"
                  /\ sim'.consecutive_count = 0
        /\ ValidPrices(df') # <<>> => sim'.base_price # None
        /\ ValidPrices(df') = <<>> => sim' = SimInit
      ]_vars

\* the split happened on a sample that followed a skipped row, and
\* another sample has been consumed since
SplitAfterSkippedRow ==
    /\ engine = "multibacktest"
    /\ Len(df) >= 3
    /\ ~ValidRow(df[1])
    /\ Len(ValidPrices(df)) >= 2
    /\ sim.base_price # None

\* C13: in both backtest engines the reference price changes at a sample
\* if and only if the sample is a qualifying trigger, and after every
\* qualifying trigger, executed or not, the reference price is the
\* sample's price and last_action is the candidate action
ReferenceUpdateRule ==
    [][ /\ SimSample =>
            LET price == Last(df').close_price
                cand == Candidate(price, sim.base_price, EngineParams.trigger_percentage)
            IN  /\ (sim'.base_price # sim.base_price) <=> (cand # "None")
                /\ cand # "None" => /\ sim'.base_price = price
                                    /\ sim'.last_action = cand
        /\ CCSample =>
            LET price == Last(df').close_price
                cand == Candidate(price, cont.base_price, params.trigger_percentage)
            IN  /\ (cont'.base_price # cont.base_price) <=> (cand # "None")
                /\ cand # "None" => /\ cont'.base_price = price
                                    /\ cont'.last_action = cand
      ]_vars

\* the percentage engine's row step over a whole series, no file loop
RECURSIVE CCRun(_, _)
CCRun(rows, p) ==
    IF rows = <<>> THEN CCInit
    ELSE CCRow(CCRun(SubSeq(rows, 1, Len(rows) - 1), p), Last(rows), p)

\* C14: simulate_trading_across_all_files over the files in order ends in
\* the balances, reference price, last action and consecutive count of one
\* engine run over the concatenation of the files' rows (df); the 50/50
\* split happens once, on the first valid sample, never at a file boundary
ContinuousEqualsConcatenation ==
    /\ engine = "e2e" =>
         LET r == SimRun(df, params)
         IN  /\ sim.eth_balance = r.eth_balance
             /\ sim.usdc_balance = r.usdc_balance
             /\ sim.base_price = r.base_price
             /\ sim.last_action = r.last_action
             /\ sim.consecutive_count = r.consecutive_count
             /\ (sim.base_price = None) <=> (ValidPrices(df) = <<>>)
    /\ engine = "cc_output" =>
         LET r == CCRun(df, params)
         IN  /\ cont.base_balance = r.base_balance
             /\ cont.quote_balance = r.quote_balance
             /\ cont.base_price = r.base_price
             /\ cont.last_action = r.last_action
             /\ cont.consecutive_count = r.consecutive_count
             /\ IF ValidPrices(df) = <<>>
                THEN cont.base_price = None /\ cont.starting_price = None
                ELSE cont.base_price # None
                       /\ cont.starting_price = ValidPrices(df)[1]

\* a trade in the second file measured from a reference set in the first
TradedAcrossFileBoundary ==
    /\ engine = "e2e"
    /\ sim.file = 2
    /\ sim.idx = 1
    /\ Len(df) >= 3
    /\ ValidRow(df[1])
    /\ sim.last_action # "None"
    /\ sim.base_price = Last(df).close_price
    /\ sim.usdc_balance # RDiv(INITIAL_USDC_BALANCE, RInt(2))

\* every month recorded so far for the running combination
AllResults ==
    agg.results_by_trend["Bullish"] \o agg.results_by_trend["Bearish"]
        \o agg.results_by_trend["Sideways"]

\* C15: the outcome recorded for a month file (trade count, final value,
\* profits) is the outcome of simulate_trading started from the constructor
\* state on that file's rows alone, whatever months were simulated before
SeriesOutcomeIndependent ==
    engine = "sampler" =>
      /\ \A i \in DOMAIN AllResults :
           LET r == AllResults[i]
           IN  r = MonthResult(MonthlyInfo(TRUE, r.Month_File), r.Month_File,
                               SimRun(r.Month_File, CurrentParams))
      /\ (agg.phase = "running" /\ df = <<>>) => sim = SimInit

\* two months recorded, each with a trade, the second after the first
TwoTradingMonthsRecorded ==
    /\ engine = "sampler"
    /\ Len(AllResults) = 2
    /\ \A i \in 1..2 : AllResults[i].Num_Trades >= 1
    /\ AllResults[1].Month_File # AllResults[2].Month_File

EmptyRegimesOmitted ==
    (engine = "sampler" /\ agg.phase = "done") =>
      /\ \A i \in DOMAIN agg.analysis_records :
           agg.results_by_trend[agg.analysis_records[i].Market_Trend] # <<>>
      /\ \A t \in {"Bullish", "Bearish", "Sideways"} :
           agg.results_by_trend[t] # <<>> =>
             Cardinality({i \in DOMAIN agg.analysis_records :
                            agg.analysis_records[i].Market_Trend = t}) = 1

\* C17 amended: the aggregator emits exactly one record per regime for each
\* of Bullish, Bearish, Sideways, in that order; Total_Months is the number
\* of series observed in the regime, and a regime with zero series gets a
\* record with Total_Months 0 and no means
OneRecordPerRegime ==
    (engine = "sampler" /\ agg.phase = "done") =>
      /\ Len(agg.analysis_records) = 3
      /\ \A i \in 1..3 :
           LET rec == agg.analysis_records[i]
               n   == Len(agg.results_by_trend[Trends[i]])
           IN  /\ rec.Market_Trend = Trends[i]
               /\ rec.Total_Months = n
               /\ (n = 0) <=> (rec.Avg_Trading_Profit_USD = None)
               /\ (n = 0) <=> (rec.Avg_Hold_Profit_USD = None)
               /\ (n = 0) <=> (rec.Avg_Num_Trades = None)

\* a combination aggregated with a month in one regime and none in another
AggregatedWithEmptyRegime ==
    /\ engine = "sampler"
    /\ agg.phase = "done"
    /\ agg.results_by_trend["Bullish"] # <<>>
    /\ agg.results_by_trend["Bearish"] = <<>>

\* C18: a row whose closing price or opening timestamp cannot be parsed,
\* or whose timestamp is out of range, changes no part of the simulation
\* state (balances, reference price, last_action, consecutive count, trade
\* log, next id) and never ends the run early, in simulate_trading of
\* backtest/02_multibacktest.py and of archive/backtest.py
MalformedRowsAbsent ==
    [][ ( UsdEngine /\ df' # df /\ ~ValidRow(Last(df')) )
        => /\ sim'.eth_balance = sim.eth_balance
           /\ sim'.usdc_balance = sim.usdc_balance
           /\ sim'.base_price = sim.base_price
           /\ sim'.last_action = sim.last_action
           /\ sim'.consecutive_count = sim.consecutive_count
           /\ sim'.trade_logs = sim.trade_logs
           /\ sim'.trade_id = sim.trade_id
           /\ sim'.error = "None"
      ]_vars

\* C19: a request for more combinations than the grid holds fails at the
\* sampling step, before any month file is loaded and before any
\* simulation step; a request for exactly the grid size succeeds and
\* returns every grid position exactly once
SampleTooLargeFailsFast ==
    engine = "sampler" =>
      /\ (sampler.NUM_COMBOS > GridSize /\ sampler.status # "idle")
           => (sampler.status = "ValueError" /\ sampler.picked = <<>>)
      /\ sampler.status = "ValueError"
           => (sampler.NUM_COMBOS > GridSize
                 /\ df = <<>> /\ sim = SimInit /\ agg = AggInit)
      /\ (agg # AggInit \/ df # <<>> \/ sim # SimInit)
           => sampler.status = "done"
      /\ sampler.status = "done"
           => /\ sampler.NUM_COMBOS <= GridSize
              /\ Len(sampler.picked) = sampler.NUM_COMBOS
              /\ Cardinality(Range(sampler.picked)) = Len(sampler.picked)
      /\ (sampler.status = "done" /\ sampler.NUM_COMBOS = GridSize)
           => Range(sampler.picked) = 1..GridSize

\* sampling has failed on a request of more than the grid size
SampleRaised ==
    /\ engine = "sampler"
    /\ sampler.NUM_COMBOS = GridSize + 1
    /\ sampler.status = "ValueError"

\* C20: within one run a step appends at most one TradeRecord, at the end
\* of the log and for the sample just processed; sequence ids start at 1
\* and increase by exactly 1 per recorded trade, and a sample that records
\* no trade (blocked by the gate or inside the band) consumes no id
RecordOrdering ==
    [][ /\ ( UsdEngine /\ df' # df ) =>
            /\ \A i \in DOMAIN sim'.trade_logs : sim'.trade_logs[i].ID = i
            /\ sim'.trade_id = Len(sim'.trade_logs) + 1
            /\ \/ sim'.trade_logs = sim.trade_logs
               \/ /\ Len(sim'.trade_logs) = Len(sim.trade_logs) + 1
                  /\ SubSeq(sim'.trade_logs, 1, Len(sim.trade_logs)) = sim.trade_logs
                  /\ Last(sim'.trade_logs).Price = round8(Last(df').close_price)
        /\ ( engine = "cc_output" /\ df' # df ) =>
            /\ \A i \in DOMAIN cont'.trades_log : cont'.trades_log[i].ID = i
            /\ cont'.trade_id = Len(cont'.trades_log) + 1
            /\ \/ cont'.trades_log = cont.trades_log
               \/ /\ Len(cont'.trades_log) = Len(cont.trades_log) + 1
                  /\ SubSeq(cont'.trades_log, 1, Len(cont.trades_log)) = cont.trades_log
                  /\ Last(cont'.trades_log).Price = fmt6(Last(df').close_price)
      ]_vars

\* a trade with id 1, a sample blocked by the gate, then a trade with id 2
TradeBlockedTrade ==
    /\ engine = "multibacktest"
    /\ Len(df) = 4
    /\ \A i \in 1..4 : ValidRow(df[i])
    /\ Len(sim.trade_logs) = 2
    /\ sim.trade_logs[1].Price = round8(df[2].close_price)
    /\ sim.trade_logs[2].Price = round8(df[4].close_price)
    /\ sim.trade_logs[2].ID = 2
    /\ sim.trade_logs[2].Consecutive_Count = 1
    /\ sim.trade_logs[2].Action # sim.trade_logs[1].Action

\* the PortfolioState snapshot process_trading_pair works from: the exchange
\* balances, the last base price of the price log, the last logged trade
LiveSnapshot(l, x) ==
    [SimInit EXCEPT !.eth_balance = x.balances[1],
                    !.usdc_balance = x.balances[2],
                    !.base_price = get_base_price(l.price_log),
                    !.last_action = get_last_trade_action(l.trades_log)[1],
                    !.consecutive_count = get_last_trade_action(l.trades_log)[2]]

\* the pair configuration read as simulation parameters
EngineConfig(cfg) ==
    Params(cfg.trade_percentage, cfg.trigger_percentage, cfg.max_amount,
           cfg.minimum_amount, cfg.multiplier)

\* C21: one invocation of process_trading_pair on a price and a state
\* snapshot (quote asset worth 1 USD, base asset worth the price) takes the
\* decision and makes the state update of one engine step on that snapshot:
\* same action, same effective fraction, same quantity, same new reference
\* price, last_action and consecutive count, also when the gate blocks
LiveStepEqualsEngineStep ==
    [][ engine = "live" =>
        \A x \in Exchange :
          ( /\ live' = LiveStep(live, params, x)
            /\ x.usd = <<x.price, One>>
            /\ get_base_price(live.price_log) # None
            /\ ~(live.PRODUCTION /\ x.order_fails) )
          => LET r  == SimRow(LiveSnapshot(live, x), Sample(x.price), EngineConfig(params))
                 la == get_last_trade_action(live'.trades_log)
             IN  /\ get_base_price(live'.price_log) = r.base_price
                 /\ la[1] = r.last_action
                 /\ la[2] = r.consecutive_count
                 /\ (Len(live'.trades_log) = Len(live.trades_log) + 1)
                      <=> (r.trade_logs # <<>>)
                 /\ r.trade_logs # <<>> /\ Len(live'.notifications) > Len(live.notifications)
                      => LET t == Last(live'.notifications)
                             e == r.trade_logs[1]
                         IN  /\ t.action = e.Action
                             /\ round8(t.actual_trade_percentage) = e.Effective_Trade_Pct
                             /\ round8(t.qty) = e.Quantity
                             /\ t.new_base_balance = r.eth_balance
                             /\ t.new_quote_balance = r.usdc_balance
      ]_vars

\* the result lists of one combination over the month files, built from
\* empty lists
RECURSIVE MonthsResults(_, _)
MonthsResults(p, files) ==
    IF files = <<>> THEN [t \in {"Bullish", "Bearish", "Sideways"} |-> <<>>]
    ELSE LET prev == MonthsResults(p, SubSeq(files, 1, Len(files) - 1))
             file == Last(files)
             info == SweepInfo(file)
         IN  IF info = NoInfo THEN prev
             ELSE [prev EXCEPT ![info.trend] =
                      Append(@, MonthResult(info, file, SimRun(file, p)))]

\* the records of the i-th evaluated combination
ComboRecords(i) == SubSeq(sweep.analysis_records, 3 * (i - 1) + 1, 3 * i)

Count(seq, r) == Cardinality({i \in DOMAIN seq : seq[i] = r})

\* C22: two evaluations share no mutable state: with the loop iterations
\* of two calls of simulate_trading taken in any order, each call's trades
\* and balances are those of running it alone on its own rows; the records
\* of a combination are those of evaluating it alone over the month files,
\* wherever it stands in the evaluation order, and the saved summary holds
\* exactly the records of all combinations
EvaluationsIndependent ==
    /\ engine = "two_calls" =>
         \A i \in 1..2 : evals[i].s = SimRun(evals[i].df, evals[i].params)
    /\ engine = "sweep" =>
         /\ \A i \in 1..(sweep.combo - 1) :
              ComboRecords(i)
                = AggregateRecords(ComboParams(sampled_param_combos[i]),
                      MonthsResults(ComboParams(sampled_param_combos[i]),
                                    sweep.month_files))
         /\ \A i, j \in 1..(sweep.combo - 1) :
              sampled_param_combos[i] = sampled_param_combos[j]
                => ComboRecords(i) = ComboRecords(j)
         /\ Len(sweep.analysis_records) = 3 * (sweep.combo - 1)
         /\ sweep.phase \in {"summary", "ranked"} =>
              \A k \in DOMAIN sweep.analysis_records :
                 Count(sweep.df_summary, sweep.analysis_records[k])
                   = Count(sweep.analysis_records, sweep.analysis_records[k])

\* both calls have traded, the second after rows of the first were taken
BothCallsTraded ==
    /\ engine = "two_calls"
    /\ \A i \in 1..2 : Len(evals[i].df) = MaxEvalRows
    /\ \A i \in 1..2 : Len(evals[i].s.trade_logs) >= 1
    /\ evals[1].s.last_action # evals[2].s.last_action

\* two combinations evaluated over a month in which they trade differently
TwoCombosEvaluated ==
    /\ engine = "sweep"
    /\ sweep.combo >= 3
    /\ ComboRecords(1)[1].Total_Months >= 1
    /\ ComboRecords(1)[1].Avg_Trading_Profit_USD
         # ComboRecords(2)[1].Avg_Trading_Profit_USD

\* mean_trading_profit - mean_hold_profit of an aggregate record, in
\* hundredths
Differential(rec) ==
    Cents(rec.Avg_Trading_Profit_USD) - Cents(rec.Avg_Hold_Profit_USD)

HasMeans(rec) == rec.Avg_Trading_Profit_USD # None /\ rec.Avg_Hold_Profit_USD # None

\* a ranked record without its Profit_Diff column
SummaryRecord(rec) ==
    [base_trade_pct |-> rec.base_trade_pct, trigger_pct |-> rec.trigger_pct,
     max_trade_usd |-> rec.max_trade_usd, min_trade_usd |-> rec.min_trade_usd,
     multiplier |-> rec.multiplier, Market_Trend |-> rec.Market_Trend,
     Avg_Trading_Profit_USD |-> rec.Avg_Trading_Profit_USD,
     Avg_Hold_Profit_USD |-> rec.Avg_Hold_Profit_USD,
     Total_Months |-> rec.Total_Months, Avg_Num_Trades |-> rec.Avg_Num_Trades]

\* C23: the final ranking lists, for every regime of the summary, its
\* records (the first three) by mean_trading_profit - mean_hold_profit in
\* descending order: of two records of a regime the one with the larger
\* differential comes first, and no record left out of the list has a
\* larger differential than a listed one
FinalRankingOrder ==
    (engine = "sweep" /\ sweep.phase = "ranked") =>
      /\ DOMAIN sweep.ranking
           = {sweep.df_summary[i].Market_Trend : i \in DOMAIN sweep.df_summary}
      /\ \A trend \in DOMAIN sweep.ranking :
           LET top == sweep.ranking[trend]
               all == SelectSeq(sweep.df_summary, LAMBDA r : r.Market_Trend = trend)
           IN  /\ Len(top) = IF Len(all) < 3 THEN Len(all) ELSE 3
               /\ \A i \in DOMAIN top :
                    /\ top[i].Market_Trend = trend
                    /\ Count(all, SummaryRecord(top[i]))
                         >= Count([k \in DOMAIN top |-> SummaryRecord(top[k])],
                                  SummaryRecord(top[i]))
               /\ \A i, j \in DOMAIN top :
                    (i < j /\ HasMeans(top[j]))
                      => /\ HasMeans(top[i])
                         /\ Differential(top[i]) >= Differential(top[j])
               /\ \A k \in DOMAIN all :
                    ( /\ HasMeans(all[k])
                      /\ Count([i \in DOMAIN top |-> SummaryRecord(top[i])], all[k])
                           < Count(all, all[k]) )
                    => \A i \in DOMAIN top :
                          /\ HasMeans(top[i])
                          /\ Differential(top[i]) >= Differential(all[k])

\* a regime ranked with two different differentials, the combination with
\* the smaller one evaluated first
RankedTwoDifferentials ==
    /\ engine = "sweep"
    /\ sweep.phase = "ranked"
    /\ "Bullish" \in DOMAIN sweep.ranking
    /\ Len(sweep.ranking["Bullish"]) >= 2
    /\ HasMeans(sweep.ranking["Bullish"][2])
    /\ Differential(sweep.ranking["Bullish"][1]) > Differential(sweep.ranking["Bullish"][2])
    /\ HasMeans(sweep.analysis_records[1])
    /\ sweep.ranking["Bullish"][1].multiplier # sweep.analysis_records[1].multiplier

\* the month files pd.read_csv can read
ReadableMonths == SelectSeq(sweep.month_files, LAMBDA f : f # UnreadableFile)

UsableMonths == SelectSeq(sweep.month_files, LAMBDA f : SweepInfo(f) # NoInfo)

IsPrefix(a, b) == Len(a) <= Len(b) /\ a = SubSeq(b, 1, Len(a))

\* C25: the state and the TradeRecords after replaying a series are a
\* function of the series and the parameters alone (two runs agree), and
\* the TradeRecords of replaying any prefix of the series are a prefix of
\* the TradeRecords of replaying the whole series
NoLookAhead ==
    engine = "multibacktest" =>
      /\ sim = SimRun(df, params)
      /\ \A k \in 0..Len(df) :
           IsPrefix(SimRun(SubSeq(df, 1, k), params).trade_logs, sim.trade_logs)

\* a series whose last sample added a second trade to those of its prefix
PrefixTradedLess ==
    /\ engine = "multibacktest"
    /\ Len(df) = 4
    /\ Len(sim.trade_logs) = 2
    /\ Len(SimRun(SubSeq(df, 1, 3), params).trade_logs) = 1
    /\ Len(SimRun(SubSeq(df, 1, 1), params).trade_logs) = 0

\* C26: every recorded SELL happened at a price p >= r * (1 + trigger) and
\* every recorded BUY at a price p <= r * (1 - trigger), r being the
\* reference price before the sample; a SELL never increases the base
\* balance and a BUY never increases the quote balance
TradeDirection ==
    [][ ( /\ engine = "multibacktest"
          /\ Len(sim'.trade_logs) = Len(sim.trade_logs) + 1 )
        => LET p == Last(df').close_price
               r == sim.base_price
               t == params.trigger_percentage
           IN  /\ r # None
               /\ Last(sim'.trade_logs).Action \in {"SELL", "BUY"}
               /\ Last(sim'.trade_logs).Action = "SELL"
                    => /\ RGe(p, RMul(r, RAdd(One, t)))
                       /\ RLe(sim'.eth_balance, sim.eth_balance)
                       /\ RGe(sim'.usdc_balance, sim.usdc_balance)
               /\ Last(sim'.trade_logs).Action = "BUY"
                    => /\ RLe(p, RMul(r, RSub(One, t)))
                       /\ RLe(sim'.usdc_balance, sim.usdc_balance)
                       /\ RGe(sim'.eth_balance, sim.eth_balance)
      ]_vars

\* a SELL on a rise and a BUY on a fall have both been recorded
SoldAndBought ==
    /\ engine = "multibacktest"
    /\ \E i \in DOMAIN sim.trade_logs : sim.trade_logs[i].Action = "SELL"
    /\ \E i \in DOMAIN sim.trade_logs : sim.trade_logs[i].Action = "BUY"
    /\ RGt(sim.eth_balance, Zero)
    /\ RGt(sim.usdc_balance, Zero)

\* the quote-denominated value of the trade a step has executed
TradeValue == RMul(RAbs(RSub(sim'.eth_balance, sim.eth_balance)), Last(df').close_price)

\* C27: when max_trade_usd > 0 the value quantity * price of every
\* executed trade of simulate_trading is at most max_trade_usd, whatever
\* the consecutive count and the effective fraction, fractions above 1
\* included
TradeCap ==
    [][ ( /\ engine = "multibacktest"
          /\ RGt(params.max_trade_usd, Zero)
          /\ Len(sim'.trade_logs) = Len(sim.trade_logs) + 1 )
        => /\ RLe(TradeValue, params.max_trade_usd)
           /\ RLe(RAbs(RSub(sim'.usdc_balance, sim.usdc_balance)),
                  params.max_trade_usd)
      ]_vars

\* a BUY with an effective fraction above 1 executed at exactly the cap
CappedAboveOne ==
    /\ engine = "multibacktest"
    /\ params.max_trade_usd = RInt(50)
    /\ Len(sim.trade_logs) >= 2
    /\ DecLt(<<1, 0>>, Last(sim.trade_logs).Effective_Trade_Pct)
    /\ Last(sim.trade_logs).Action = "BUY"
    /\ Last(sim.trade_logs).Quantity = round8(RDiv(RInt(50), Last(df).close_price))

\* C28: the value quantity * price of every trade executed by
\* simulate_trading is at least min_trade_usd, for every parameter
\* combination (a cap below the floor and fractions above 1 that force a
\* clamp to the balance included), so that no TradeRecord has quantity 0
\* when min_trade_usd > 0
MinimumTradeSize ==
    [][ ( /\ engine = "multibacktest"
          /\ Len(sim'.trade_logs) = Len(sim.trade_logs) + 1 )
        => /\ RGe(TradeValue, params.min_trade_usd)
           /\ RGt(params.min_trade_usd, Zero)
                => Last(sim'.trade_logs).Quantity # <<0, 0>>
      ]_vars

\* the instant of the cell lies in 946684800..4102444800 epoch seconds
InstantInRange ==
    /\ ~DigitsLt(stamp.instant, MinSeconds)
    /\ ~DigitsLt(MaxSeconds, stamp.instant)

\* C29: for every instant between 946684800 and 4102444800 epoch seconds the
\* row is accepted whether the cell is written in seconds, milliseconds or
\* microseconds, the three encodings decode to the same instant, and a
\* timestamp is rejected only when its instant lies outside that range
TimestampUnitDetection ==
    (engine = "timestamp" /\ stamp.status \in {"accepted", "skipped"} /\ InstantInRange)
        => /\ stamp.status = "accepted"
           /\ stamp.seconds = <<stamp.instant, Zeros(UnitDigits(stamp.unit))>>

\* the state of the continuous runner that is running
Runner == IF engine = "cc_output" THEN cont ELSE sim

\* C30: the final price of the continuous multi-series runner is the price
\* of the last sample the engine consumed; a row skipped for an unparseable
\* or out-of-range timestamp does not change it
FinalPriceOfLastConsumedSample ==
    engine \in {"cc_output", "e2e"}
        => Runner.final_price = IF ValidPrices(df) = <<>> THEN None
                                ELSE Last(ValidPrices(df))

NumValid == Len(ValidPrices(df))

\* C31: a run of simulate_trading is bounded by its series: every step of
\* the loop consumes exactly one row and records at most one trade, the log
\* never holds more than (number of valid samples - 1) trades, and the loop
\* reaches the end of the series for every series and parameter combination
RunBoundedBySeries ==
    /\ [][ engine = "multibacktest"
           => /\ Len(df') = Len(df) + 1
              /\ Len(sim'.trade_logs) - Len(sim.trade_logs) \in {0, 1}
              /\ Len(sim'.trade_logs) = Len(sim.trade_logs) + 1 => ValidRow(Last(df'))
              /\ Len(sim'.trade_logs) <= IF NumValid' = 0 THEN 0 ELSE NumValid' - 1
         ]_vars
    /\ (engine = "multibacktest") ~> (Len(df) = MaxRows)

\* a whole series with a skipped row in which every valid sample after the
\* first has traded
TradedOnEveryLaterSample ==
    /\ engine = "multibacktest"
    /\ Len(df) = MaxRows
    /\ NumValid = MaxRows - 1
    /\ Len(sim.trade_logs) = NumValid - 1

\* C32: in regime-aggregation mode every month in which the engine executed
\* no trade is recorded with a trading profit equal to its buy-and-hold
\* profit, whatever rows the series holds, a first row the engine skips
\* included
ZeroTradeEarnsHoldProfit ==
    engine = "sampler"
        => \A t \in {"Bullish", "Bearish", "Sideways"} :
              \A i \in 1..Len(agg.results_by_trend[t]) :
                 LET rec == agg.results_by_trend[t][i]
                 IN  rec.Num_Trades = 0 => rec.Profit_Trading_USD = rec.Profit_Hold_USD

\* C33: while PRODUCTION is false no sequence of process_trading_pair
\* invocations places a market order on the exchange client; an invocation
\* that trades gets the SIMULATION result and only logs the trade
SimulationNeverTrades ==
    (engine = "live" /\ ~live.PRODUCTION)
        => /\ live.orders = <<>>
           /\ live.last.outcome = "traded" => live.last.order = "SIMULATION"

\* two simulated trades are in the trades log
SimulatedTradesLogged ==
    /\ engine = "live"
    /\ ~live.PRODUCTION
    /\ Len(live.trades_log) >= 2
    /\ live.last.outcome = "traded"

\* C34: an invocation whose order raises in execute_trade appends no row to
\* the trades log and none to the price log, sends no notification and
\* returns False, so the reference price, the last action and the
\* consecutive count the next invocation reads are those of before
FailedOrderLeavesStateUnchanged ==
    [][ ( /\ engine = "live"
          /\ live'.calls = live.calls + 1
          /\ live'.last.outcome = "failed" )
        => /\ live'.trades_log = live.trades_log
           /\ live'.price_log = live.price_log
           /\ live'.notifications = live.notifications
           /\ live'.last.ret = FALSE
           /\ get_base_price(live'.price_log) = get_base_price(live.price_log)
           /\ get_last_trade_action(live'.trades_log) = get_last_trade_action(live.trades_log)
      ]_vars

\* an order has failed after an earlier trade went through
OrderFailedAfterTrade ==
    /\ engine = "live"
    /\ live.PRODUCTION
    /\ live.last.outcome = "failed"
    /\ Len(live.trades_log) >= 1

\* C35: the trade percentage calculate_multiplied_trade_percentage returns
\* to process_trade_signal is never above 0.5, for every base percentage
\* validate_trading_pair accepts, every multiplier and every last action and
\* consecutive count, so that no trade commits more than half of the
\* balance on its selling side
LivePercentageCap ==
    (engine = "live" /\ live.last.outcome \in {"too_small", "failed", "traded"})
        => /\ RLe(live.last.actual_trade_percentage, Rat(1, 2))
           /\ live.last.outcome = "traded"
                => LET t == Last(live.notifications)
                   IN  IF t.action = "SELL"
                       THEN RLe(RMul(RInt(2), t.qty), t.base_balance)
                       ELSE RLe(RMul(RInt(2), RMul(t.qty, t.price)), t.quote_balance)

\* the price a row of the price log holds for a quotation: float of the
\* 6-decimal cell
Logged(price) == DecToRat(fmt6(price), 6)

\* the rows of the price log flagged as base
BaseRows(price_log) == {i \in 1..Len(price_log) : price_log[i].Base = 1}

\* what one invocation does to the reference price, new_reference(price)
\* being the reference a stored quotation yields
ReferenceProtocol(l, m, x, new_reference(_)) ==
    LET before == get_base_price(l.price_log)
        after  == get_base_price(m.price_log)
        row    == Last(m.price_log)
    IN  /\ after = IF BaseRows(m.price_log) = {} THEN None
                   ELSE LET i == CHOOSE i \in BaseRows(m.price_log) :
                                    \A j \in BaseRows(m.price_log) : j <= i
                        IN  DecToRat(m.price_log[i].Price, 6)
        /\ before = None
             => /\ m.last.outcome = "init"
                /\ Len(m.price_log) = Len(l.price_log) + 1
                /\ row.Base = 1
                /\ after = new_reference(x.price)
                /\ m.trades_log = l.trades_log
                /\ m.orders = l.orders
        /\ m.last.outcome = "no_trade"
             => /\ Len(m.price_log) = Len(l.price_log) + 1
                /\ row.Base = 0
                /\ row.Price = fmt6(x.price)
                /\ after = before
        /\ m.last.outcome \in {"traded", "too_small"}
             => /\ Len(m.price_log) = Len(l.price_log) + 1
                /\ row.Base = 1
                /\ after = new_reference(x.price)

Same(price) == price

\* C36 as stated: get_base_price returns the price of the last row flagged
\* as base; the first invocation stores the current price with flag 1 and
\* trades nothing; an invocation inside the band appends the price with
\* flag 0 and leaves the reference; an invocation that trades or hits the
\* minimum-size gate makes the current price the new reference
LiveReferenceIsCurrentPrice ==
    [][ engine = "live" =>
        \A x \in Exchange :
           live' = LiveStep(live, params, x) => ReferenceProtocol(live, live', x, Same)
      ]_vars

\* what the price log gives instead: the same protocol, the new reference
\* being the current price as the log holds it, rounded to 6 decimals
LiveReferenceIsLoggedPrice ==
    [][ engine = "live" =>
        \A x \in Exchange :
           live' = LiveStep(live, params, x) => ReferenceProtocol(live, live', x, Logged)
      ]_vars

\* the log holds a base row, then a row of another price inside the band,
\* and the last invocation has moved the reference to a quotation of more than 6 decimals
ReferenceMovedPastBandRow ==
    /\ engine = "live"
    /\ Len(live.price_log) = 3
    /\ live.price_log[2].Base = 0
    /\ live.price_log[2].Price # live.price_log[1].Price
    /\ live.last.outcome \in {"traded", "too_small"}
    /\ get_base_price(live.price_log) = Logged(P3_256)

\* the set_price calls made for a symbol, as positions in the call record
SetsOf(symbol) ==
    {i \in 1..Len(price_cache.calls) :
        price_cache.calls[i].op = "set" /\ price_cache.calls[i].symbol = symbol}

\* what get_price(symbol) is to answer at the clock reading now: the price of
\* the latest set_price for the symbol if made less than ttl seconds before
FreshPrice(symbol, now) ==
    IF SetsOf(symbol) = {} THEN None
    ELSE LET i == CHOOSE i \in SetsOf(symbol) : \A j \in SetsOf(symbol) : j <= i
         IN  IF now - price_cache.calls[i].time < price_cache.ttl
             THEN <<price_cache.calls[i].price>>
             ELSE None

\* C37: after any sequence of set_price and get_price calls, get_price
\* returns the most recently set price of the symbol if and only if it was
\* set strictly less than ttl seconds ago, and None otherwise; a set_price
\* on another symbol changes nothing of that
PriceCacheExpiry ==
    (engine = "price_cache" /\ price_cache.last.op = "get")
        => price_cache.last.result = FreshPrice(price_cache.last.symbol, price_cache.now)

\* a price is returned for one symbol after a later set_price on the other
FreshAfterOtherSet ==
    /\ engine = "price_cache"
    /\ Len(price_cache.calls) = 3
    /\ price_cache.calls[1].op = "set"
    /\ price_cache.calls[2].op = "set"
    /\ price_cache.calls[2].symbol # price_cache.calls[1].symbol
    /\ price_cache.last.op = "get"
    /\ price_cache.last.symbol = price_cache.calls[1].symbol
    /\ price_cache.last.result = <<price_cache.calls[1].price>>

\* the calls on the stack from the outermost one: depth grows by one per
\* call, stays within the limit of 3, and no call past its entry test asks
\* for an asset its caller had visited
RecursionBounded ==
    /\ Len(usd.stack) <= 4
    /\ \A k \in 1..Len(usd.stack) :
          /\ usd.stack[k].depth = k - 1
          /\ usd.stack[k].depth <= 3
          /\ k > 1 => /\ usd.stack[k].asset \notin usd.stack[k - 1].visited
                      /\ usd.stack[k - 1].visited \subseteq usd.stack[k].visited

\* C38: get_usd_price always terminates: for every asset and every pattern
\* of failing lookups the recursion through the BTC and ETH fallbacks stays
\* within the depth limit and never revisits an asset of the visited set,
\* the call returns, and it returns 0.0 when no route yields a price
UsdPriceTerminates ==
    /\ [](engine = "usd_price" => RecursionBounded)
    /\ [](engine = "usd_price" /\ usd.status = "returned" /\ ~usd.found
            => usd.result = <<Zero>>)
    /\ (engine = "usd_price") ~> (usd.status = "returned")

\* both fallbacks are open at once below the outermost call
BothFallbacksOpen ==
    /\ engine = "usd_price"
    /\ Len(usd.stack) = 3
    /\ usd.stack[2].asset = "ETH"
    /\ usd.stack[3].asset = "BTC"
    /\ usd.stack[3].pc = "fail"

\* the ID column of a log written by store_price or log_trade counts 1, 2,
\* 3, ... in 6-digit cells
CountsFromOne(rows) == \A i \in 1..Len(rows) : rows[i].ID = fmt06d(i) /\ int(rows[i].ID) = i

\* C39: over any sequence of store_price appends to the price log and of
\* log_trade appends to the trades log, both files starting absent, the ID
\* column of the data rows is 1, 2, 3, ... with no gap and no repeat
LogRowIds ==
    engine = "live" => CountsFromOne(live.price_log) /\ CountsFromOne(live.trades_log)

\* three price rows and two trade rows have been written
LogsGrown ==
    /\ engine = "live"
    /\ Len(live.price_log) = 3
    /\ Len(live.trades_log) = 2
====
